---- MODULE Spec2Model ----
(***************************************************************************)
(* kuzflow: OCR of scanned order images followed by extraction of four     *)
(* order fields, as a batch or a single-image pipeline.                    *)
(*                                                                         *)
(* Text is modelled as a sequence of atoms.  An atom is one character of   *)
(* the text ("{", ":", "5", a Chinese character written by its pinyin      *)
(* name) or an ASCII word that no pattern of the program looks inside      *)
(* ("company_name", "ACME", "kg").                                         *)
(*                                                                         *)
(* Four specifications share the module:                                   *)
(*   SpecBatch    the two batch loops (batch_ocr_process,                  *)
(*                batch_deepseek_process)                                  *)
(*   SpecParse    the two response parsers on model replies                *)
(*   SpecExtract  DeepSeekOrderExtractor.extract_order_info                *)
(*   SpecOCR      OrderOCR.extract_text_from_image and the pipeline        *)
(***************************************************************************)
EXTENDS Naturals, Integers, Sequences, FiniteSets, TLC

VARIABLES
    (* batch loops *)
    bprog,        \* "ocr" | "ai": which batch script runs
    bpc,          \* "setup" | "loop" | "done" | "none" (returned None)
    bidx,         \* 1-based index of the next item of the for loop
    batch,        \* batch_results / batch_ai_results
    disk,         \* per-item artifacts on disk: set of <<item, file>>
    summaryFile,  \* what was dumped to the summary file, or NoSummary
    outcomes,         \* what each iteration so far did, in order
    bsetup,           \* how the set-up before the loop ended, or "pending"
    engineLoads,      \* how often the engine (or tokenizer and model) was loaded
    engineCalls,      \* the items the engine was called for, in order
    (* response parsers *)
    reply,        \* the model reply handed to the parsers
    classRes,     \* what DeepSeekOrderExtractor.parse_extraction_result returned
    batchRes,     \* what batch_deepseek_compatible.parse_extraction_result returned
    orig,         \* the reply and its result before a trailing comma was inserted
    (* extract_order_info *)
    ocr_text,         \* the argument of extract_order_info
    epc,              \* "call" | "returned"
    eret,             \* the returned dict
    tokenizerCalls,   \* calls of self.tokenizer(...)
    generateCalls,    \* calls of self.model.generate(...)
    mock,             \* how the model answered the prompt of ocr_text, once asked
    eruns,            \* calls of extract_order_info so far
    prevRet,          \* the dict the call before this one returned
    (* OrderOCR and the pipeline *)
    engine,           \* what self.ocr.ocr(image_path) returns
    opc,              \* extract_text_from_image: "call" | "returned" | "raised"
    ocrRet,           \* the dict extract_text_from_image returned
    plpc,             \* process_order: "ocr" | "extract" | "write" | "returned"
    final_result,     \* final_result of process_order
    extractionCalls,  \* calls of run_extraction_step
    finalWrites,      \* times the final result file was written
    mpc,              \* main() of main.py: "none" | "start" | "running" | "exited"
    exitStatus        \* the exit status of the process; -1 while it runs

batchVars == <<bprog, bpc, bidx, batch, disk, summaryFile, outcomes,
               bsetup, engineLoads, engineCalls>>

parseVars == <<reply, classRes, batchRes, orig>>

extractVars == <<ocr_text, epc, eret, tokenizerCalls, generateCalls, mock, eruns, prevRet>>

VARIABLES combined_results, rpc, order_rates, overall_success_rate

VARIABLES conda_args, cpc, child, cret, executions

VARIABLES text_data, hpc, basic_info, order_info

mainVars == <<mpc, exitStatus>>

ocrVars == <<engine, opc, ocrRet, plpc, final_result, extractionCalls, finalWrites,
             mainVars>>

\* The reporters: the ai_extraction mappings they read, where they are, and
\* the rates they print (in tenths of a percent, as the .1f format shows them).
reportVars == <<combined_results, rpc, order_rates, overall_success_rate>>

\* run_in_conda_env: its arguments, where it is, what subprocess.run did,
\* what the call returned, and how often the command was executed.
condaVars == <<conda_args, cpc, child, cret, executions>>

\* The OCR-stage heuristics: the regions read, which of the two functions
\* have run, and what they returned.
heurVars == <<text_data, hpc, basic_info, order_info>>

\* The programs that run beside the pipeline.
auxVars == <<reportVars, condaVars, heurVars>>

vars == <<batchVars, parseVars, extractVars, ocrVars, auxVars>>

(***************************************************************************)
(* Bounds of the model.                                                    *)
(***************************************************************************)
MaxItems == 3      \* files of a batch run

MaxPairs == 2      \* members of a JSON object in a reply

MaxLines == 2      \* lines of a reply that holds no JSON object

MaxOcrLines == 3   \* lines of an OCR text

MaxRegions == 2    \* text regions of an engine response

MaxRuns == 2       \* calls of extract_order_info on one text

(***************************************************************************)
(* Text: sequences of atoms, and the str / re operations the code uses.    *)
(***************************************************************************)
QUOTE == "\""
APOS  == "'"
NL    == "\n"

\* str.strip() and the regex class \s, on the atoms of the model.
IsWs(c) == c \in {" ", NL}

IsDigit(c) == c \in {"0", "1", "2", "5"}

Min(S) == CHOOSE x \in S : \A y \in S : x <= y

Max(S) == CHOOSE x \in S : \A y \in S : x >= y

\* s[i..j], empty when i > j.
Slice(s, i, j) == IF i > j THEN <<>> ELSE SubSeq(s, i, j)

\* str.strip()
strip(s) ==
    LET keep == {i \in 1..Len(s) : ~IsWs(s[i])}
    IN  IF keep = {} THEN <<>> ELSE SubSeq(s, Min(keep), Max(keep))

\* pat occurs in s starting at index i.
MatchAt(s, pat, i) ==
    /\ i >= 1
    /\ i + Len(pat) - 1 <= Len(s)
    /\ \A k \in 1..Len(pat) : s[i + k - 1] = pat[k]

\* Python's "pat in s".
In(pat, s) == \E i \in 1..(Len(s) + 1) : MatchAt(s, pat, i)

\* The first index >= i of s that holds no whitespace (Len(s) + 1 if none).
SkipWs(s, i) ==
    LET stop == {j \in i..Len(s) : ~IsWs(s[j])}
    IN  IF stop = {} THEN Len(s) + 1 ELSE Min(stop)

\* str.split('\n'): the lines of s; always at least one line.
split(s) ==
    LET nls == {i \in 1..Len(s) : s[i] = NL}
        cut == nls \cup {0, Len(s) + 1}
        starts == {c \in cut : c <= Len(s)}
        line[n \in 1..Cardinality(starts)] ==
            LET from == CHOOSE c \in starts : Cardinality({d \in starts : d < c}) = n - 1
                to   == Min({c \in cut : c > from})
            IN  Slice(s, from + 1, to - 1)
    IN  line

\* "\n".join(lines)
join(lines) ==
    LET f[n \in 0..Len(lines)] ==
            IF n = 0 THEN <<>>
            ELSE IF n = 1 THEN lines[1]
            ELSE f[n - 1] \o <<NL>> \o lines[n]
    IN  f[Len(lines)]

\* str.lower() on the atoms that hold upper-case letters.
LowerAtom(c) ==
    CASE c = "NULL" -> "null"
      [] c = "None" -> "none"
      [] c = "ACME" -> "acme"
      [] c = "KG"   -> "kg"
      [] OTHER      -> c

lower(s) == [i \in 1..Len(s) |-> LowerAtom(s[i])]

\* re.sub: every leftmost non-overlapping match is replaced by rep, scanning
\* left to right.  MatchEnd(s, i) is the last index of the match that starts
\* at i, or 0 when the pattern does not match at i.
ReSub(s, MatchEnd(_, _), rep) ==
    LET f[i \in 1..(Len(s) + 1)] ==
            LET starts == {k \in i..Len(s) : MatchEnd(s, k) > 0}
            IN  IF starts = {} THEN Slice(s, i, Len(s))
                ELSE Slice(s, i, Min(starts) - 1) \o rep \o f[MatchEnd(s, Min(starts)) + 1]
    IN  f[1]

(***************************************************************************)
(* json.loads on the atoms of the model: an object whose values are        *)
(* strings, integers or null.  Every other text is a JSONDecodeError.      *)
(* A parsed object is a function from keys to values; a value is           *)
(* [t |-> "str" | "num" | "null", s |-> its text].                         *)
(***************************************************************************)
JsonFail == [ok |-> FALSE, val |-> <<>>, next |-> 0]

Str(s) == [t |-> "str", s |-> s]

JsonNull == [t |-> "null", s |-> <<>>]

EmptyDict == [k \in {} |-> JsonNull]

\* A string literal whose opening quote is s[i].  A raw line break inside a
\* string is an invalid control character.
JsonString(s, i) ==
    LET close == {k \in (i + 1)..Len(s) : s[k] = QUOTE}
    IN  IF close = {} THEN JsonFail
        ELSE LET k == Min(close)
                 body == Slice(s, i + 1, k - 1)
             IN  IF \E n \in 1..Len(body) : body[n] = NL THEN JsonFail
                 ELSE [ok |-> TRUE, val |-> body, next |-> k + 1]

\* -?(0|[1-9]\d*) at s[i]: the last index of the number, or 0.
JsonNumberEnd(s, i) ==
    LET j == IF i <= Len(s) /\ s[i] = "-" THEN i + 1 ELSE i
    IN  IF j > Len(s) \/ ~IsDigit(s[j]) THEN 0
        ELSE IF s[j] = "0" THEN j
        ELSE Min({k \in j..Len(s) : k = Len(s) \/ ~IsDigit(s[k + 1])})

JsonValue(s, i) ==
    IF i > Len(s) THEN JsonFail
    ELSE IF s[i] = QUOTE
         THEN LET r == JsonString(s, i)
              IN  IF r.ok THEN [ok |-> TRUE, val |-> Str(r.val), next |-> r.next]
                  ELSE JsonFail
    ELSE IF s[i] = "null" THEN [ok |-> TRUE, val |-> JsonNull, next |-> i + 1]
    ELSE LET e == JsonNumberEnd(s, i)
         IN  IF e = 0 THEN JsonFail
             ELSE [ok |-> TRUE, next |-> e + 1,
                   val |-> [t |-> "num",
                            s |-> IF Slice(s, i, e) = <<"-", "0">> THEN <<"0">>
                                  ELSE Slice(s, i, e)]]

\* The members of an object from s[i], the place of a key; acc holds the
\* members read so far (a repeated key keeps its last value).
RECURSIVE JsonMembers(_, _, _)
JsonMembers(s, i, acc) ==
    IF i > Len(s) \/ s[i] # QUOTE THEN [ok |-> FALSE, obj |-> EmptyDict]
    ELSE LET key == JsonString(s, i)
             j == SkipWs(s, key.next)
         IN  IF ~key.ok \/ j > Len(s) \/ s[j] # ":" THEN [ok |-> FALSE, obj |-> EmptyDict]
             ELSE LET v == JsonValue(s, SkipWs(s, j + 1))
                      k == SkipWs(s, v.next)
                      now == (key.val :> v.val) @@ acc
                  IN  IF ~v.ok \/ k > Len(s) THEN [ok |-> FALSE, obj |-> EmptyDict]
                      ELSE IF s[k] = "}"
                           THEN [ok |-> SkipWs(s, k + 1) > Len(s), obj |-> now]
                      ELSE IF s[k] = ","
                           THEN JsonMembers(s, SkipWs(s, k + 1), now)
                      ELSE [ok |-> FALSE, obj |-> EmptyDict]

\* json.loads(s): [ok, obj]; ok = FALSE stands for the JSONDecodeError.
json_loads(s) ==
    LET i == SkipWs(s, 1)
        j == SkipWs(s, i + 1)
    IN  IF i > Len(s) \/ s[i] # "{" THEN [ok |-> FALSE, obj |-> EmptyDict]
        ELSE IF j <= Len(s) /\ s[j] = "}"
             THEN [ok |-> SkipWs(s, j + 1) > Len(s), obj |-> EmptyDict]
        ELSE LET r == JsonMembers(s, j, EmptyDict)
             IN  IF r.ok THEN r ELSE [ok |-> FALSE, obj |-> EmptyDict]

(***************************************************************************)
(* The field keys and the not-found sentinel.                              *)
(***************************************************************************)
\* "wei zhao dao": the sentinel, "not found".
NotFound == <<"wei", "zhao", "dao">>

\* The Chinese keys of DeepSeekOrderExtractor, written by pinyin atoms.
K_company  == <<"ke", "hu", "gong", "si", "ming", "cheng">>
K_product  == <<"gou", "mai", "wu", "pin", "ming", "cheng">>
K_quantity == <<"gou", "mai", "wu", "pin", "shu", "liang">>
K_date     == <<"xia", "ding", "dan", "ri", "qi">>

ZhKeys == {K_company, K_product, K_quantity, K_date}

\* The English keys of batch_deepseek_compatible.
EnKeys == {<<"company_name">>, <<"product_name">>, <<"product_quantity">>, <<"order_date">>}

(***************************************************************************)
(* DeepSeekOrderExtractor.parse_extraction_result                          *)
(***************************************************************************)
\* re.search(r'\{.*?\}', s, re.DOTALL) and re.search(r'\{[^}]*\}', s, re.DOTALL):
\* from the first "{" that has a "}" after it to the first "}" after it.
\* <<first, last>>, or <<0, 0>> when there is no match.
BraceSearch(s) ==
    LET opens == {i \in 1..Len(s) : s[i] = "{" /\ \E j \in (i + 1)..Len(s) : s[j] = "}"}
    IN  IF opens = {} THEN <<0, 0>>
        ELSE LET i == Min(opens)
             IN  <<i, Min({j \in (i + 1)..Len(s) : s[j] = "}"})>>

\* //.*?\n
LineCommentEnd(s, i) ==
    IF MatchAt(s, <<"/", "/">>, i) /\ \E k \in (i + 2)..Len(s) : s[k] = NL
    THEN Min({k \in (i + 2)..Len(s) : s[k] = NL})
    ELSE 0

\* /\*.*?\*/ with re.DOTALL
BlockCommentEnd(s, i) ==
    LET ends == {k \in (i + 2)..Len(s) : MatchAt(s, <<"*", "/">>, k)}
    IN  IF MatchAt(s, <<"/", "*">>, i) /\ ends # {} THEN Min(ends) + 1 ELSE 0

\* </?think>
ThinkTagEnd(s, i) ==
    IF MatchAt(s, <<"<", "think", ">">>, i) THEN i + 2
    ELSE IF MatchAt(s, <<"<", "/", "think", ">">>, i) THEN i + 3
    ELSE 0

\* the fence of three backticks, json, \s*
JsonFenceEnd(s, i) ==
    IF MatchAt(s, <<"fence", "json">>, i) THEN SkipWs(s, i + 2) - 1 ELSE 0

\* the fence of three backticks, \s*
FenceEnd(s, i) ==
    IF MatchAt(s, <<"fence">>, i) THEN SkipWs(s, i + 1) - 1 ELSE 0

\* ,\s*}
CommaBraceEnd(s, i) ==
    LET j == SkipWs(s, i + 1)
    IN  IF i <= Len(s) /\ s[i] = "," /\ j <= Len(s) /\ s[j] = "}" THEN j ELSE 0

\* ,\s*]
CommaBracketEnd(s, i) ==
    LET j == SkipWs(s, i + 1)
    IN  IF i <= Len(s) /\ s[i] = "," /\ j <= Len(s) /\ s[j] = "]" THEN j ELSE 0

\* The seven re.sub calls on json_str, in the order of the code.
CleanJson(json_str) ==
    LET s1 == ReSub(json_str, LineCommentEnd, <<NL>>)
        s2 == ReSub(s1, BlockCommentEnd, <<>>)
        s3 == ReSub(s2, ThinkTagEnd, <<>>)
        s4 == ReSub(s3, JsonFenceEnd, <<>>)
        s5 == ReSub(s4, FenceEnd, <<>>)
        s6 == ReSub(s5, CommaBraceEnd, <<"}">>)
    IN  ReSub(s6, CommaBracketEnd, <<"]">>)

\* The class of the group: any character but the two quotes, the comma and
\* the line break.
ValueChar(c) == c \notin {QUOTE, APOS, ",", NL}

\* The last index of the longest run of value characters from g.
ValueRunEnd(s, g) == Min({k \in g..Len(s) : k = Len(s) \/ ~ValueChar(s[k + 1])})

\* label, optional quote, \s*, a colon (ASCII or full width), \s*, optional
\* quote, then the group of one or more value characters; tried with the label at s[p]: the
\* group as <<first, last>>, or <<0, 0>>.  After the colon the regex takes
\* all the white space and an optional quote; when no value character follows
\* it backtracks into the white space, where the group can start at a blank.
LabelGroupAt(s, label, p) ==
    LET a  == p + Len(label)
        a1 == IF a <= Len(s) /\ s[a] \in {QUOTE, APOS} THEN a + 1 ELSE a
        b  == SkipWs(s, a1)
        c  == b + 1
        d  == SkipWs(s, c)
        g0 == IF d > Len(s) THEN 0
              ELSE IF s[d] \in {QUOTE, APOS}
                   THEN (IF d + 1 <= Len(s) /\ ValueChar(s[d + 1]) THEN d + 1 ELSE 0)
              ELSE IF ValueChar(s[d]) THEN d ELSE 0
        blanks == {e \in c..(d - 1) : e <= Len(s) /\ s[e] = " "}
        g  == IF g0 # 0 THEN g0 ELSE IF blanks # {} THEN Max(blanks) ELSE 0
    IN  IF ~MatchAt(s, label, p) \/ b > Len(s) \/ s[b] \notin {":", "colon_fw"} \/ g = 0
        THEN <<0, 0>>
        ELSE <<g, ValueRunEnd(s, g)>>

\* re.search of a label pattern: [found, group], the leftmost match.
LabelSearch(s, label) ==
    LET ps == {p \in 1..Len(s) : LabelGroupAt(s, label, p)[1] # 0}
    IN  IF ps = {} THEN [found |-> FALSE, group |-> <<>>]
        ELSE LET g == LabelGroupAt(s, label, Min(ps))
             IN  [found |-> TRUE, group |-> Slice(s, g[1], g[2])]

\* The character class of the quantity pattern, [dun|gong jin|qian ke|sheng|
\* li fang mi|jian|ge|tao]: every character between the brackets, the bar
\* included.
UnitClass == {"dun", "|", "gong", "jin", "qian", "ke_g", "sheng", "li", "fang", "mi",
              "jian", "ge", "tao"}

\* (\d+\s*[...]+) tried at s[p]: the last index of the match, or 0.
UnitEndAt(s, p) ==
    IF p > Len(s) \/ ~IsDigit(s[p]) THEN 0
    ELSE LET r == Min({k \in p..Len(s) : k = Len(s) \/ ~IsDigit(s[k + 1])})
             w == SkipWs(s, r + 1)
         IN  IF w > Len(s) \/ s[w] \notin UnitClass THEN 0
             ELSE Min({k \in w..Len(s) : k = Len(s) \/ s[k + 1] \notin UnitClass})

UnitSearch(s) ==
    LET ps == {p \in 1..Len(s) : UnitEndAt(s, p) # 0}
    IN  IF ps = {} THEN [found |-> FALSE, group |-> <<>>]
        ELSE [found |-> TRUE, group |-> Slice(s, Min(ps), UnitEndAt(s, Min(ps)))]

\* \d{n} at s[i]
DigitsAt(s, i, n) == i + n - 1 <= Len(s) /\ \A k \in i..(i + n - 1) : IsDigit(s[k])

\* \d{1,2} at s[i], greedy: how many digits it takes when sep must follow
\* (0: no match).
OneOrTwoThen(s, i, needSep) ==
    LET sepAt(k) == k <= Len(s) /\ s[k] \in {"-", "/"}
    IN  IF DigitsAt(s, i, 2) /\ (~needSep \/ sepAt(i + 2)) THEN 2
        ELSE IF DigitsAt(s, i, 1) /\ (~needSep \/ sepAt(i + 1)) THEN 1
        ELSE 0

\* (\d{4}[-/]\d{1,2}[-/]\d{1,2}) tried at s[p]: the last index, or 0.
DateEndAt(s, p) ==
    IF ~(DigitsAt(s, p, 4) /\ p + 4 <= Len(s) /\ s[p + 4] \in {"-", "/"}) THEN 0
    ELSE LET m == OneOrTwoThen(s, p + 5, TRUE)
             d == OneOrTwoThen(s, p + 5 + m + 1, FALSE)
         IN  IF m = 0 \/ d = 0 THEN 0 ELSE p + 5 + m + d

DateSearch(s) ==
    LET ps == {p \in 1..Len(s) : DateEndAt(s, p) # 0}
    IN  IF ps = {} THEN [found |-> FALSE, group |-> <<>>]
        ELSE [found |-> TRUE, group |-> Slice(s, Min(ps), DateEndAt(s, Min(ps)))]

\* The ordered pattern lists of the regex fallback.
Patterns(key) ==
    CASE key = K_company ->
           << [kind |-> "label", label |-> K_company],
              [kind |-> "label", label |-> <<"jia", "fang">>],
              [kind |-> "label", label |-> <<"gong", "si">>] >>
      [] key = K_product ->
           << [kind |-> "label", label |-> K_product],
              [kind |-> "label", label |-> <<"wu", "pin", "ming", "cheng">>],
              [kind |-> "label", label |-> <<"chan", "pin">>] >>
      [] key = K_quantity ->
           << [kind |-> "label", label |-> K_quantity],
              [kind |-> "label", label |-> <<"shu", "liang">>],
              [kind |-> "unit", label |-> <<>>] >>
      [] key = K_date ->
           << [kind |-> "label", label |-> K_date],
              [kind |-> "label", label |-> <<"ding", "dan", "ri", "qi">>],
              [kind |-> "label", label |-> <<"ri", "qi">>],
              [kind |-> "date", label |-> <<>>] >>

PatternSearch(s, pat) ==
    CASE pat.kind = "label" -> LabelSearch(s, pat.label)
      [] pat.kind = "unit"  -> UnitSearch(s)
      [] pat.kind = "date"  -> DateSearch(s)

\* for pattern in pattern_list: the first pattern that matches sets the field
\* (match.group(1).strip()) and breaks.
FirstPattern(s, pats) ==
    LET hits == {n \in 1..Len(pats) : PatternSearch(s, pats[n]).found}
    IN  IF hits = {} THEN NotFound
        ELSE strip(PatternSearch(s, pats[Min(hits)]).group)

\* The regex fallback of parse_extraction_result.
RegexFallback(response) ==
    [key \in ZhKeys |-> Str(FirstPattern(response, Patterns(key)))]

\* parse_extraction_result(self, response): the returned dict as info; path
\* records which return statement produced it ("json": return result,
\* "regex": return extracted_info).
DeepSeekOrderExtractor_parse_extraction_result(response) ==
    LET m == BraceSearch(response)
        parsed == json_loads(CleanJson(Slice(response, m[1], m[2])))
    IN  IF m[1] # 0 /\ parsed.ok
        THEN [path |-> "json", info |-> parsed.obj]
        ELSE [path |-> "regex", info |-> RegexFallback(response)]

(***************************************************************************)
(* batch_deepseek_compatible.parse_extraction_result                       *)
(***************************************************************************)
default_result == [key \in EnKeys |-> Str(NotFound)]

\* Python truth of a parsed JSON value: a non-empty string, a non-zero number.
Truthy(v) ==
    CASE v.t = "str"  -> v.s # <<>>
      [] v.t = "num"  -> v.s # <<"0">>
      [] v.t = "null" -> FALSE

\* The body of "for key in default_result.keys()": the cleaned value of key.
CleanField(result, key) ==
    IF key \in DOMAIN result /\ Truthy(result[key])
    THEN LET v == strip(result[key].s)    \* str(result[key]).strip()
         IN  IF v = <<>> \/ lower(v) \in {<<>>, NotFound, <<"null">>, <<"none">>}
             THEN NotFound
             ELSE v
    ELSE NotFound

\* re.search of a colon (ASCII or full width), \s*, (.+) on one line:
\* [found, group].
ColonSearch(line) ==
    LET colons == {q \in 1..Len(line) : line[q] \in {":", "colon_fw"}}
        q == Min(colons)
        r == SkipWs(line, q + 1)
    IN  IF colons = {} \/ q = Len(line) THEN [found |-> FALSE, group |-> <<>>]
        ELSE IF r <= Len(line) THEN [found |-> TRUE, group |-> Slice(line, r, Len(line))]
        ELSE [found |-> TRUE, group |-> <<line[Len(line)]>>]

\* The if / elif chain of the text parse: the field a line is read for, or
\* <<>> when the line is skipped.
LineField(line) ==
    IF In(<<"gong", "si">>, line) /\ In(<<"ming", "cheng">>, line) THEN <<"company_name">>
    ELSE IF In(<<"wu", "pin">>, line) /\ In(<<"ming", "cheng">>, line) THEN <<"product_name">>
    ELSE IF In(<<"shu", "liang">>, line) THEN <<"product_quantity">>
    ELSE IF In(<<"ri", "qi">>, line) THEN <<"order_date">>
    ELSE <<>>

\* "for line in lines": every line that matches assigns its field again.
TextParse(response) ==
    LET lines == split(response)
        f[n \in 0..Len(lines)] ==
            IF n = 0 THEN default_result
            ELSE LET line == strip(lines[n])
                     field == LineField(line)
                     m == ColonSearch(line)
                 IN  IF field # <<>> /\ m.found
                     THEN [f[n - 1] EXCEPT ![field] = Str(strip(m.group))]
                     ELSE f[n - 1]
    IN  f[Len(lines)]

\* parse_extraction_result(response): the returned dict as info; path records
\* the return statement ("json": return result, "text": the text parse,
\* "except": return default_result from the handler).
batch_parse_extraction_result(response) ==
    LET m == BraceSearch(response)
        parsed == json_loads(Slice(response, m[1], m[2]))
    IN  IF m[1] # 0
        THEN IF parsed.ok
             THEN [path |-> "json",
                   info |-> [key \in (DOMAIN parsed.obj) \cup EnKeys |->
                               IF key \in EnKeys THEN Str(CleanField(parsed.obj, key))
                               ELSE parsed.obj[key]]]
             ELSE [path |-> "except", info |-> default_result]
        ELSE [path |-> "text", info |-> TextParse(response)]

(***************************************************************************)
(* DeepSeekOrderExtractor.extract_from_ocr_text: the direct pass           *)
(***************************************************************************)
\* The number of characters an atom stands for.
AtomLen(c) ==
    CASE c \in {"kg", "KG"} -> 2
      [] c = "fence" -> 3
      [] c \in {"ACME", "acme", "null", "NULL", "None", "none", "json"} -> 4
      [] c = "think" -> 5
      [] c = "order_date" -> 10
      [] c \in {"company_name", "product_name"} -> 12
      [] c = "product_quantity" -> 16
      [] OTHER -> 1

\* len(s)
len(s) ==
    LET f[n \in 0..Len(s)] == IF n = 0 THEN 0 ELSE f[n - 1] + AtomLen(s[n])
    IN  f[Len(s)]

Buyer == <<"gou", "mai", "fang">>          \* the marker "gou mai fang", buyer

SodiumCarbonate == <<"tan", "suan", "na">>  \* the product "tan suan na"

HasKg(line) == In(<<"KG">>, line) \/ In(<<"kg">>, line)

\* A first loop that stops at the first buyer line, whatever follows it:
\* C21 does not hold of it.
DirectCompanyFirstMarker(lines) ==
    LET hits == {i \in 1..(Len(lines) - 1) : In(Buyer, lines[i])}
        next == strip(lines[Min(hits) + 1])
    IN  IF hits = {} \/ next = <<>> \/ next = Buyer THEN NotFound ELSE next

\* The first loop: the stripped line after the first buyer line whose next
\* line is non-empty and not the marker itself.
DirectCompany(lines) ==
    LET hits == {i \in 1..(Len(lines) - 1) :
                    /\ In(Buyer, lines[i])
                    /\ strip(lines[i + 1]) # <<>>
                    /\ strip(lines[i + 1]) # Buyer}
    IN  IF hits = {} THEN NotFound ELSE strip(lines[Min(hits) + 1])

\* The second loop stops at the first line holding the product; the quantity
\* is the stripped next line when that holds KG or kg.
DirectQuantity(lines) ==
    LET prod == {i \in 1..Len(lines) : In(SodiumCarbonate, lines[i])}
        i == Min(prod)
        item == {n \in 1..Len(lines) :
                    In(<<"wu", "pin">>, lines[n]) /\ len(strip(lines[n])) > 2}
        kgs == {n \in 1..Len(lines) : HasKg(lines[n])}
    IN  IF prod # {}
        THEN IF i + 1 <= Len(lines) /\ HasKg(strip(lines[i + 1]))
             THEN strip(lines[i + 1]) ELSE NotFound
        \* no product: any line naming an item, then the first line with KG or kg
        ELSE IF item # {} /\ kgs # {} THEN strip(lines[Min(kgs)])
        ELSE NotFound

\* A direct pass that also reports the first line holding a year as the
\* date: C28 does not hold of it.
DirectPassWithDate(text) ==
    LET lines == split(strip(text))
        dated == {i \in 1..Len(lines) : In(<<"2", "0", "2", "5">>, lines[i])}
    IN  (K_company  :> Str(DirectCompany(lines))) @@
        (K_product  :> Str(IF \E i \in 1..Len(lines) : In(SodiumCarbonate, lines[i])
                           THEN SodiumCarbonate ELSE NotFound)) @@
        (K_quantity :> Str(DirectQuantity(lines))) @@
        (K_date     :> Str(IF dated = {} THEN NotFound ELSE strip(lines[Min(dated)])))

\* extract_from_ocr_text(self, ocr_text)
extract_from_ocr_text(text) ==
    LET lines == split(strip(text))
    IN  (K_company  :> Str(DirectCompany(lines))) @@
        (K_product  :> Str(IF \E i \in 1..Len(lines) : In(SodiumCarbonate, lines[i])
                           THEN SodiumCarbonate ELSE NotFound)) @@
        (K_quantity :> Str(DirectQuantity(lines))) @@
        (K_date     :> Str(NotFound))

(***************************************************************************)
(* The values a specification gives the variables of the others.           *)
(***************************************************************************)
NoSummary == [total |-> 0, processed |-> 0, failed |-> 0, results |-> <<>>, written |-> FALSE]

\* batch_results / batch_ai_results as created before the loop.
NewBatch(n) == [total |-> n, processed |-> 0, failed |-> 0, results |-> <<>>]

NoRes == [path |-> "none", info |-> EmptyDict]

NoOrig == [reply |-> <<>>, res |-> NoRes, edited |-> FALSE]

NoRet == [success |-> FALSE]

IdleBatch ==
    /\ bprog = "none" /\ bpc = "none" /\ bidx = 1
    /\ batch = NewBatch(0) /\ disk = {} /\ summaryFile = NoSummary
    /\ outcomes = <<>>
    /\ bsetup = "pending" /\ engineLoads = 0 /\ engineCalls = <<>>

IdleParse ==
    /\ reply = <<>> /\ classRes = NoRes /\ batchRes = NoRes /\ orig = NoOrig

\* The model has not been asked yet.
NoMock == [out |-> "none", gen |-> <<>>]

IdleExtract ==
    /\ ocr_text = <<>> /\ epc = "idle" /\ eret = NoRet
    /\ tokenizerCalls = 0 /\ generateCalls = 0
    /\ mock = NoMock /\ eruns = 0 /\ prevRet = NoRet

NoEngine == [top |-> "None", first |-> "None", texts |-> <<>>, scores |-> -1,
             boxes |-> -1, items |-> <<>>]

\* Python's None where a dict may stand.
None == [none |-> TRUE]

\* final_result as process_order creates it.
NoFinal == [ocr_result |-> None, extraction_result |-> None, success |-> FALSE,
            error_message |-> ""]

IdleOCR ==
    /\ engine = NoEngine /\ opc = "idle" /\ ocrRet = NoRet /\ plpc = "idle"
    /\ final_result = NoFinal /\ extractionCalls = 0 /\ finalWrites = 0
    /\ mpc = "none" /\ exitStatus = -1

\* No rate printed yet.
NoRate == -1

IdleReport ==
    /\ combined_results = <<>> /\ rpc = "none"
    /\ order_rates = <<>> /\ overall_success_rate = NoRate

\* subprocess.run not yet called.
NoChild == [kind |-> "none"]

IdleConda ==
    /\ conda_args = <<>> /\ cpc = "none" /\ child = NoChild /\ cret = NoRet
    /\ executions = 0

IdleHeur ==
    /\ text_data = <<>> /\ hpc = {} /\ basic_info = NoRet /\ order_info = NoRet

IdleAux == IdleReport /\ IdleConda /\ IdleHeur

notBatch == <<parseVars, extractVars, ocrVars, auxVars>>

notParse == <<batchVars, extractVars, ocrVars, auxVars>>

notExtract == <<batchVars, parseVars, ocrVars, auxVars>>

notOCR == <<batchVars, parseVars, extractVars, auxVars>>

notAux == <<batchVars, parseVars, extractVars, ocrVars>>

(***************************************************************************)
(* The batch loops.                                                        *)
(***************************************************************************)
\* What the steps of one iteration of batch_ocr_process can do.  Each raise
\* names the statement that raises; the steps before it have run.
OcrOutcomes ==
    { "engine_raises",      \* ocr.ocr(...) raises
      "no_text",            \* not result or not result[0]
      "handling_raises",    \* line[0] / line[1][0] / np.mean raises
      "mkdir_raises",       \* image_output_dir.mkdir raises
      "json_open_raises",   \* open(json_path, 'w') raises
      "json_dump_raises",   \* json.dump(image_result, f) raises
      "text_write_raises",  \* writing ocr_text.txt raises
      "visual_raises",      \* save_simple_visualization raises (swallowed)
      "ok" }

\* The statements of the iteration up to and including the two counters'
\* updates: batch_results after them.
OcrCounted(b, item, out) ==
    IF out \in {"engine_raises", "no_text", "handling_raises"}
    THEN [b EXCEPT !.failed = @ + 1]
    ELSE LET rec == [b EXCEPT !.results = Append(@, [item |-> item, success |-> TRUE]),
                              !.processed = @ + 1]
         IN  IF out \in {"mkdir_raises", "json_open_raises", "json_dump_raises",
                         "text_write_raises"}
             THEN [rec EXCEPT !.failed = @ + 1]   \* except Exception: failed += 1
             ELSE rec

\* The files the iteration leaves on disk.
OcrFiles(item, out) ==
    CASE out \in {"engine_raises", "no_text", "handling_raises",
                  "mkdir_raises", "json_open_raises"} -> {}
      [] out = "json_dump_raises"  -> {<<item, "ocr_result.json">>}
      [] out = "text_write_raises" -> {<<item, "ocr_result.json">>, <<item, "ocr_text.txt">>}
      [] out = "visual_raises"     -> {<<item, "ocr_result.json">>, <<item, "ocr_text.txt">>}
      [] OTHER -> {<<item, "ocr_result.json">>, <<item, "ocr_text.txt">>,
                   <<item, "visualization.jpg">>}

InitBatch ==
    /\ bprog \in {"ocr", "ai"}
    /\ bpc = "setup"
    /\ bidx = 1
    /\ batch = NewBatch(0)
    /\ disk = {}
    /\ summaryFile = NoSummary
    /\ outcomes = <<>>
    /\ bsetup = "pending" /\ engineLoads = 0 /\ engineCalls = <<>>
    /\ IdleParse /\ IdleExtract /\ IdleOCR /\ IdleAux

\* What the statements of batch_ocr_process after the tests of the input
\* can do: PaddleOCR(...) raises, output_dir.mkdir raises, or neither.
OcrSetupWorlds == {"engine_raises", "mkdir_raises", "ok"}

\* How the statements before the loop of batch_ocr_process end: the image
\* directory is missing, the glob finds no image, or what follows.
OcrSetup(dirExists, n, world) ==
    IF ~dirExists THEN "no_dir"
    ELSE IF n = 0 THEN "no_files"
    ELSE world

\* What the statements of batch_deepseek_process after the tests of the
\* input can do: loading the tokenizer or the model raises, or not.
AiSetupWorlds == {"engine_raises", "ok"}

\* How the statements before the loop of batch_deepseek_process end: the
\* batch directory is missing, no ocr_result.json is found, the model path
\* is missing, or what follows.
AiSetup(dirExists, n, modelExists, world) ==
    IF ~dirExists THEN "no_dir"
    ELSE IF n = 0 THEN "no_files"
    ELSE IF ~modelExists THEN "no_model"
    ELSE world

\* A set-up that loads the engine before it looks for the input: C30 does
\* not hold of it.
LoadsBeforeInput(result) == IF result = "engine_raises" THEN 0 ELSE 1

\* The engines the set-up has loaded when it ends: PaddleOCR(...), or the
\* tokenizer and the model, stand after the tests of the input.
LoadsAfterSetup(result) == IF result \in {"mkdir_raises", "ok"} THEN 1 ELSE 0

\* A loop that loads the engine again after an item failed: C23 does not
\* hold of it.
ReloadAfterFailure(loads, out) ==
    IF out \in {"engine_raises", "generate_raises", "no_text", "empty_text"}
    THEN loads + 1 ELSE loads

\* The engines loaded after an iteration: the loop bodies load none.
LoadsAfterItem(loads, out) == loads

\* batch_ocr_process up to the loop: the image directory, the glob, the engine.
batch_ocr_setup ==
    /\ bprog = "ocr" /\ bpc = "setup"
    /\ \E dirExists \in BOOLEAN, n \in 0..MaxItems, world \in OcrSetupWorlds :
        \E result \in {OcrSetup(dirExists, n, world)} :
         /\ bsetup' = result
         /\ engineLoads' = LoadsAfterSetup(result)
         /\ IF result = "ok"
            THEN /\ bpc' = "loop"
                 /\ batch' = NewBatch(n)
            ELSE /\ bpc' = "none"
                 /\ UNCHANGED batch
    /\ UNCHANGED <<bprog, bidx, disk, summaryFile, outcomes, engineCalls, notBatch>>

\* One iteration of the for loop of batch_ocr_process.
batch_ocr_item ==
    /\ bprog = "ocr" /\ bpc = "loop" /\ bidx <= batch.total
    /\ \E out \in OcrOutcomes :
         /\ batch' = OcrCounted(batch, bidx, out)
         /\ outcomes' = Append(outcomes, out)
         /\ disk' = disk \cup OcrFiles(bidx, out)
         /\ engineCalls' = Append(engineCalls, bidx)     \* ocr.ocr(...) comes first
         /\ engineLoads' = LoadsAfterItem(engineLoads, out)
    /\ bidx' = bidx + 1
    /\ UNCHANGED <<bprog, bpc, summaryFile, bsetup, notBatch>>

\* What the steps of one iteration of batch_deepseek_process can do.
AiOutcomes ==
    { "read_raises",        \* open(ocr_file) / json.load raises
      "empty_text",         \* not raw_text: failed_files += 1; continue
      "format_raises",      \* the :.2f of confidence_avg raises
      "generate_raises",    \* model.generate raises; generate_response returns ""
      "open_raises",        \* open(ai_result_path, 'w') raises
      "dump_raises",        \* json.dump(ai_result, f) raises
      "ok" }

\* What generate_response may return for the prompt: nothing, an object
\* with one field, an object with none of the fields, a label line.
BatchReplies ==
    { <<>>,
      <<"{", QUOTE, "company_name", QUOTE, ":", QUOTE, "ACME", QUOTE, "}">>,
      <<"{", QUOTE, "a", QUOTE, ":", QUOTE, "b", QUOTE, "}">>,
      <<"shu", "liang", ":", " ", "5", "0", "0", "jin">> }

\* ai_result: the record appended to results.  generate_response returns
\* "" when the model raised.
AiResult(item, out, response) ==
    [item |-> item, success |-> TRUE,
     ai_extraction |->
        batch_parse_extraction_result(IF out = "generate_raises" THEN <<>> ELSE response).info]

\* batch_ai_results after the iteration.
AiCounted(b, item, out, response) ==
    IF out \in {"read_raises", "empty_text", "format_raises"}
    THEN [b EXCEPT !.failed = @ + 1]
    ELSE LET rec == [b EXCEPT !.results = Append(@, AiResult(item, out, response)),
                              !.processed = @ + 1]
         IN  IF out \in {"open_raises", "dump_raises"}
             THEN [rec EXCEPT !.failed = @ + 1]   \* except Exception: failed += 1
             ELSE rec

\* The calls of generate_response in the iteration: one, unless a statement
\* before it raised or the text was empty.
AiEngineCalls(item, out) ==
    IF out \in {"read_raises", "empty_text", "format_raises"} THEN <<>> ELSE <<item>>

\* The files the iteration leaves on disk.
AiFiles(item, out) ==
    IF out \in {"dump_raises", "generate_raises", "ok"}
    THEN {<<item, "ai_result.json">>}
    ELSE {}

\* batch_deepseek_process up to the loop: the batch directory, the glob of
\* the OCR results, the model path, the tokenizer and the model.
batch_ai_setup ==
    /\ bprog = "ai" /\ bpc = "setup"
    /\ \E dirExists \in BOOLEAN, n \in 0..MaxItems, modelExists \in BOOLEAN,
          world \in AiSetupWorlds :
        \E result \in {AiSetup(dirExists, n, modelExists, world)} :
         /\ bsetup' = result
         /\ engineLoads' = LoadsAfterSetup(result)
         /\ IF result = "ok"
            THEN /\ bpc' = "loop"
                 /\ batch' = NewBatch(n)
            ELSE /\ bpc' = "none"
                 /\ UNCHANGED batch
    /\ UNCHANGED <<bprog, bidx, disk, summaryFile, outcomes, engineCalls, notBatch>>

\* One iteration of the for loop of batch_deepseek_process.
batch_ai_item ==
    /\ bprog = "ai" /\ bpc = "loop" /\ bidx <= batch.total
    /\ \E out \in AiOutcomes, response \in BatchReplies :
         /\ batch' = AiCounted(batch, bidx, out, response)
         /\ outcomes' = Append(outcomes, out)
         /\ disk' = disk \cup AiFiles(bidx, out)
         /\ engineCalls' = engineCalls \o AiEngineCalls(bidx, out)
         /\ engineLoads' = LoadsAfterItem(engineLoads, out)
    /\ bidx' = bidx + 1
    /\ UNCHANGED <<bprog, bpc, summaryFile, bsetup, notBatch>>

\* After the loop: dump the summary (a raise here is caught by the outer
\* handler, which returns None).
batch_summary ==
    /\ bpc = "loop" /\ bidx > batch.total
    /\ \E writeOk \in BOOLEAN :
         IF writeOk
         THEN /\ bpc' = "done"
              /\ summaryFile' = [total |-> batch.total, processed |-> batch.processed,
                                 failed |-> batch.failed, results |-> batch.results,
                                 written |-> TRUE]
         ELSE /\ bpc' = "none"
              /\ UNCHANGED summaryFile
    /\ UNCHANGED <<bprog, bidx, batch, disk, outcomes, bsetup, engineLoads, engineCalls,
                   notBatch>>

NextBatch ==
    \/ batch_ocr_setup
    \/ batch_ocr_item
    \/ batch_ai_setup
    \/ batch_ai_item
    \/ batch_summary

SpecBatch == InitBatch /\ [][NextBatch]_vars

(***************************************************************************)
(* The response parsers on the replies of the model.                       *)
(***************************************************************************)
\* Every sequence of at most n elements of S.
SeqsUpTo(S, n) == UNION {[1..k -> S] : k \in 0..n}

\* sep.join(parts) for sequences of atoms.
JoinWith(parts, sep) ==
    LET f[n \in 0..Len(parts)] ==
            IF n = 0 THEN <<>>
            ELSE IF n = 1 THEN parts[1]
            ELSE f[n - 1] \o sep \o parts[n]
    IN  f[Len(parts)]

Quoted(s) == <<QUOTE>> \o s \o <<QUOTE>>

Pair(k, v) == Quoted(k) \o <<":">> \o v

\* Members a reply may hold: English and Chinese keys; plain, padded, empty
\* and null-like values; a value holding a brace, one holding two slashes.
ReplyPairs ==
    { Pair(<<"company_name">>, Quoted(<<"ACME">>)),
      Pair(<<"product_quantity">>, Quoted(<<" ", "5", "0", "0", "kg", " ">>)),
      Pair(<<"order_date">>, Quoted(<<"NULL">>)),
      Pair(<<"product_name">>, Quoted(<<>>)),
      Pair(<<"order_date">>, <<"null">>),
      Pair(<<"company_name">>, Quoted(<<"a", "}", "b">>)),
      Pair(<<"a">>, Quoted(<<"h", "/", "/", "x">>)),
      Pair(K_company, Quoted(<<"ACME">>)),
      Pair(K_quantity, Quoted(<<>>)) }

\* What stands before the closing brace, before the object and after it.
ReplyTails == { <<>>, <<",">>, <<",", NL>> }

ReplyPrefixes == { <<>>, <<"{", "x", "}", NL>>, <<"fence", "json", NL>> }

QuantityLine == <<"shu", "liang", ":", " ", "5", "0", "0", "jin">>

ReplySuffixes == { <<>>, <<NL>> \o QuantityLine }

JsonReplies ==
    { pre \o <<"{">> \o JoinWith(ps, <<",">>) \o tl \o <<"}">> \o post :
        pre \in ReplyPrefixes, ps \in SeqsUpTo(ReplyPairs, MaxPairs),
        tl \in ReplyTails, post \in ReplySuffixes }

\* Lines of a reply that holds no JSON object.
ReplyLines ==
    { QuantityLine,
      <<"shu", "liang", "colon_fw", "1", ",", "5", "0", "0", "jin">>,
      <<"gou", "mai", "wu", "pin", "shu", "liang", ":", " ", "2", "dun">>,
      <<"shu", "liang", ":", " ", QUOTE, "5", "0", "0", "jin", QUOTE>>,
      <<"shu", "liang", ":", " ">>,
      <<"gong", "si", "ming", "cheng", ":", " ", "ACME">>,
      <<"wu", "pin", "ming", "cheng", ":", "x">>,
      <<"ri", "qi", ":", " ", "2", "0", "2", "5", "-", "0", "1", "-", "1", "5">>,
      <<"5", "0", "0", "jin">> }

TextReplies == { JoinWith(ls, <<NL>>) : ls \in SeqsUpTo(ReplyLines, MaxLines) }

Replies == JsonReplies \cup TextReplies

InitParse ==
    /\ reply \in Replies
    /\ classRes = NoRes /\ batchRes = NoRes /\ orig = NoOrig
    /\ IdleBatch /\ IdleExtract /\ IdleOCR /\ IdleAux

\* DeepSeekOrderExtractor.parse_extraction_result(reply)
class_parse ==
    /\ classRes = NoRes
    /\ classRes' = DeepSeekOrderExtractor_parse_extraction_result(reply)
    /\ UNCHANGED <<reply, batchRes, orig, notParse>>

\* batch_deepseek_compatible.parse_extraction_result(reply)
batch_parse ==
    /\ batchRes = NoRes
    /\ batchRes' = batch_parse_extraction_result(reply)
    /\ UNCHANGED <<reply, classRes, orig, notParse>>

\* The same reply with a trailing comma, and white space after it, before
\* the closing brace of its first {...}: the next reply to parse.
insert_trailing_comma ==
    /\ ~orig.edited /\ classRes # NoRes /\ batchRes # NoRes
    /\ BraceSearch(reply)[1] # 0
    /\ \E ws \in {<<>>, <<" ">>, <<NL>>} :
         LET j == BraceSearch(reply)[2]
         IN  reply' = Slice(reply, 1, j - 1) \o <<",">> \o ws \o Slice(reply, j, Len(reply))
    /\ orig' = [reply |-> reply, res |-> classRes, edited |-> TRUE]
    /\ classRes' = NoRes /\ batchRes' = NoRes
    /\ UNCHANGED notParse

NextParse ==
    \/ class_parse
    \/ batch_parse
    \/ insert_trailing_comma

SpecParse == InitParse /\ [][NextParse]_vars

(***************************************************************************)
(* DeepSeekOrderExtractor.extract_order_info                               *)
(***************************************************************************)
\* Lines of an OCR text: the buyer marker, a company, the known product, a
\* quantity, a line naming an item (more than two characters), one of two
\* characters, an empty line, a date.
OcrLines ==
    { Buyer,
      <<"ACME", "gong", "si">>,
      SodiumCarbonate,
      <<"2", "0", "0", "KG">>,
      <<"wu", "pin", "ming", "cheng">>,
      <<"wu", "pin">>,
      <<>>,
      <<"2", "0", "2", "5", "-", "0", "1", "-", "1", "5">> }

OcrTexts == { JoinWith(ls, <<NL>>) : ls \in SeqsUpTo(OcrLines, MaxOcrLines) }

\* generated_text[len(prompt):] for the replies the model may give: objects
\* with all, one or none of the four keys, label lines, nothing.
Generated ==
    { <<"{">> \o JoinWith(<<Pair(K_company, Quoted(<<"ACME">>)),
                            Pair(K_product, Quoted(<<"x">>)),
                            Pair(K_quantity, Quoted(<<"5", "0", "0", "kg">>)),
                            Pair(K_date, Quoted(NotFound))>>, <<",", NL>>) \o <<"}">>,
      <<" ", "{">> \o Pair(K_company, Quoted(<<>>)) \o <<"}", NL>>,
      <<"{">> \o Pair(<<"a">>, Quoted(<<"b">>)) \o <<",", "}">>,
      <<"{", "x", "}", NL>> \o QuantityLine,
      QuantityLine \o <<NL>>,
      <<"shu", "liang", ":", " ", QUOTE, QUOTE>>,
      <<"ri", "qi", ":", "null">>,
      <<>> }

\* raw_response of the short-circuit: "zhi jie ti qu", extracted directly.
DirectTag == <<"zhi", "jie", "ti", "qu">>

\* What the statements after the direct pass can do.
ModelOutcomes == {"tokenizer_raises", "generate_raises", "decode_raises", "ok"}

\* The condition of the short-circuit without its test of the quantity: C2
\* does not hold of an extract_order_info that used it.
DirectHitNoQuantity(direct) ==
    \/ direct[K_company] # Str(NotFound)
    \/ direct[K_product] # Str(NotFound)

\* The condition of the short-circuit: company, product or quantity found.
DirectHit(direct) ==
    \/ direct[K_company] # Str(NotFound)
    \/ direct[K_product] # Str(NotFound)
    \/ direct[K_quantity] # Str(NotFound)

\* The dict of the short-circuit.
DirectReturn(text, direct) ==
    [success |-> TRUE, extracted_info |-> direct, raw_response |-> DirectTag,
     ocr_text |-> text]

\* The dict the except handler returns.
FailureResult(text, e) ==
    [success |-> FALSE, error |-> e, extracted_info |-> EmptyDict, ocr_text |-> text]

InitExtract ==
    /\ ocr_text \in OcrTexts
    /\ epc = "call"
    /\ eret = NoRet
    /\ tokenizerCalls = 0 /\ generateCalls = 0
    /\ mock = NoMock /\ eruns = 1 /\ prevRet = NoRet
    /\ IdleBatch /\ IdleParse /\ IdleOCR /\ IdleAux

\* The model pass of an extract_order_info that reports a reply without an
\* opening brace as a failure: C13 does not hold of it.
ModelPassSentinelFails(text, out, gen) ==
    IF out = "ok" /\ In(<<"{">>, gen)
    THEN [success |-> TRUE,
          extracted_info |-> DeepSeekOrderExtractor_parse_extraction_result(strip(gen)).info,
          raw_response |-> strip(gen), ocr_text |-> text]
    ELSE FailureResult(text, out)

\* The model pass of an extract_order_info that keeps state between calls:
\* once generate has been called, it reports no field.  C14 does not hold
\* of it.
ModelPassStateful(text, out, gen) ==
    IF out = "ok"
    THEN [success |-> TRUE,
          extracted_info |->
              IF generateCalls = 0
              THEN DeepSeekOrderExtractor_parse_extraction_result(strip(gen)).info
              ELSE [key \in ZhKeys |-> Str(NotFound)],
          raw_response |-> strip(gen), ocr_text |-> text]
    ELSE FailureResult(text, out)

\* The statements after the direct pass: the model is called with the
\* prompt and its reply parsed; a raise is caught by the handler.
ModelPass(text, out, gen) ==
    IF out = "ok"
    THEN [success |-> TRUE,
          extracted_info |-> DeepSeekOrderExtractor_parse_extraction_result(strip(gen)).info,
          raw_response |-> strip(gen), ocr_text |-> text]
    ELSE FailureResult(text, out)

\* extract_order_info(self, ocr_text).  The model is deterministic (mocked):
\* asked again with the prompt of the same text, it does what it did before.
extract_order_info ==
    /\ epc = "call"
    /\ epc' = "returned"
    /\ LET direct == extract_from_ocr_text(ocr_text)
       IN  IF DirectHit(direct)
           THEN /\ eret' = DirectReturn(ocr_text, direct)
                /\ UNCHANGED <<tokenizerCalls, generateCalls, mock>>
           ELSE \E out \in ModelOutcomes, gen \in Generated :
                  /\ mock \in {NoMock, [out |-> out, gen |-> gen]}
                  /\ mock' = [out |-> out, gen |-> gen]
                  /\ tokenizerCalls' = tokenizerCalls + 1
                  /\ generateCalls' = IF out = "tokenizer_raises" THEN generateCalls
                                      ELSE generateCalls + 1
                  /\ eret' = ModelPass(ocr_text, out, gen)
    /\ UNCHANGED <<ocr_text, eruns, prevRet, notExtract>>

\* The caller keeps the returned dict and calls extract_order_info again on
\* the same text.
call_again ==
    /\ epc = "returned" /\ eruns < MaxRuns
    /\ epc' = "call"
    /\ eruns' = eruns + 1
    /\ prevRet' = eret
    /\ eret' = NoRet
    /\ UNCHANGED <<ocr_text, tokenizerCalls, generateCalls, mock, notExtract>>

NextExtract ==
    \/ extract_order_info
    \/ call_again

SpecExtract == InitExtract /\ [][NextExtract]_vars

\* extract_from_ocr_text(self, ocr_text) called on its own.
direct_pass ==
    /\ epc = "call"
    /\ epc' = "direct"
    /\ eret' = [extracted_info |-> extract_from_ocr_text(ocr_text)]
    /\ UNCHANGED <<ocr_text, tokenizerCalls, generateCalls, mock, eruns, prevRet, notExtract>>

SpecDirect == InitExtract /\ [][direct_pass]_vars

\* The direct pass on its own, or within extract_order_info.
SpecShortCircuit == InitExtract /\ [][direct_pass \/ extract_order_info]_vars

\* Either program runs: a batch run, or calls of extract_order_info.
SpecSentinel == (InitBatch \/ InitExtract) /\ [][NextBatch \/ NextExtract]_vars

(***************************************************************************)
(* OrderOCR.extract_text_from_image.  An engine response is a record:      *)
(*   top    "None" | "empty_list" | "list" | "other" (a truthy non-list)   *)
(*   first  for a list, its first element: "None" | "dict_rec" (a dict     *)
(*          with rec_texts) | "dict_other" | "lines" (a list) | "object"   *)
(*   texts  rec_texts; scores, boxes: the length of rec_scores and of      *)
(*          rec_boxes, -1 when the key is absent                           *)
(*   items  the elements of the list of lines                              *)
(* A text is [str |-> is it a Python str, s |-> its characters].           *)
(***************************************************************************)
PyStr(s) == [str |-> TRUE, s |-> s]

PyNone == [str |-> FALSE, s |-> <<>>]

\* str(result): some non-blank text.
Repr == PyStr(<<"repr">>)

TextVals == {PyStr(<<"a">>), PyStr(<<" ">>), PyStr(<<>>), PyNone}

\* Elements of a list of lines: [box, (text, conf)], the same as a tuple, a
\* list of another length, a list whose second element does not unpack to
\* two, and a [box, (None, conf)].
ItemVals ==
    { [kind |-> "pair",    text |-> PyStr(<<"a">>)],
      [kind |-> "pair",    text |-> PyStr(<<>>)],
      [kind |-> "pair",    text |-> PyNone],
      [kind |-> "tuple",   text |-> PyStr(<<"a">>)],
      [kind |-> "short",   text |-> PyStr(<<"a">>)],
      [kind |-> "badpair", text |-> PyStr(<<"a">>)] }

Response(top, first, texts, scores, boxes, items) ==
    [top |-> top, first |-> first, texts |-> texts, scores |-> scores,
     boxes |-> boxes, items |-> items]

EngineResponses ==
    { Response(t, "None", <<>>, -1, -1, <<>>) : t \in {"None", "empty_list", "other"} }
    \cup { Response("list", f, <<>>, -1, -1, <<>>) : f \in {"None", "dict_other", "object"} }
    \cup { Response("list", "dict_rec", ts, sc, bx, <<>>) :
             ts \in SeqsUpTo(TextVals, MaxRegions), sc \in -1..MaxRegions, bx \in -1..MaxRegions }
    \cup { Response("list", "lines", <<>>, -1, -1, its) : its \in SeqsUpTo(ItemVals, MaxRegions) }

\* A region of raw_data.  bbox and confidence name the engine's value by its
\* index; 0 is the default ([] and 0.9), also taken when the key is absent.
Region(bbox, text, confidence) == [bbox |-> bbox, text |-> text, confidence |-> confidence]

\* formatted_lines = [str(result)]; raw_data = [{"bbox": [], ...}]
Fallback == <<Region(0, Repr, 0)>>

\* The loop over rec_texts: a region per text that is not blank.
RECURSIVE RecTextsRegions(_, _, _, _)
RecTextsRegions(texts, scores, boxes, i) ==
    IF i > Len(texts) THEN <<>>
    ELSE LET rest == RecTextsRegions(texts, scores, boxes, i + 1)
         IN  IF strip(texts[i].s) # <<>>
             THEN <<Region(IF i <= boxes THEN i ELSE 0, texts[i],
                           IF i <= scores THEN i ELSE 0)>> \o rest
             ELSE rest

\* The loop over the list of lines: a region per list of length two.
RECURSIVE LinesRegions(_, _)
LinesRegions(items, i) ==
    IF i > Len(items) THEN <<>>
    ELSE LET rest == LinesRegions(items, i + 1)
         IN  IF items[i].kind \in {"pair", "badpair"}
             THEN <<Region(i, items[i].text, i)>> \o rest
             ELSE rest

\* raw_data after the try statement; the handler replaces it by the fallback.
RawData(r) ==
    IF r.top # "list" THEN Fallback
    ELSE CASE r.first = "dict_rec" ->
                IF \E i \in 1..Len(r.texts) : ~r.texts[i].str
                THEN Fallback                       \* text.strip() raises
                ELSE RecTextsRegions(r.texts, r.scores, r.boxes, 1)
           [] r.first = "lines" ->
                IF \E i \in 1..Len(r.items) : r.items[i].kind = "badpair"
                THEN Fallback                       \* the unpacking raises
                ELSE LET regions == LinesRegions(r.items, 1)
                     IN  IF regions = <<>> THEN Fallback ELSE regions
           [] OTHER -> Fallback

\* formatted_lines: the texts of raw_data, in order.
FormattedLines(raw) == [i \in 1..Len(raw) |-> raw[i].text]

\* The value extract_text_from_image returns, or [raised |-> ...] for the
\* exception that leaves it.
OcrResult(r) ==
    IF r.top \in {"None", "empty_list"}
    THEN [raw_result |-> <<>>, formatted_text |-> <<>>, error |-> "wei shi bie dao ren he wen zi"]
    ELSE LET raw == RawData(r)
             lines == FormattedLines(raw)
         IN  IF \E i \in 1..Len(lines) : ~lines[i].str
             THEN [raised |-> "TypeError"]          \* "\n".join(formatted_lines)
             ELSE [raw_result |-> raw,
                   formatted_text |-> join([i \in 1..Len(lines) |-> lines[i].s]),
                   total_lines |-> Len(lines),
                   success |-> TRUE]

\* A call of extract_text_from_image on its own, and process_order, both on
\* an engine that answers with the same response.  process_order is called
\* directly (mpc = "none") or by main() of main.py (mpc = "start").
InitOCR ==
    /\ engine \in EngineResponses
    /\ opc = "call"
    /\ ocrRet = NoRet
    /\ mpc \in {"none", "start"}
    /\ plpc = IF mpc = "none" THEN "ocr" ELSE "idle"
    /\ exitStatus = -1
    /\ final_result = NoFinal
    /\ extractionCalls = 0
    /\ finalWrites = 0
    /\ IdleBatch /\ IdleParse /\ IdleExtract /\ IdleAux

\* extract_text_from_image(self, image_path)
extract_text_from_image ==
    /\ opc = "call"
    /\ \E world \in {"image_missing", "engine_raises", "responds"} :
         LET res == IF world = "responds" THEN OcrResult(engine) ELSE [raised |-> world]
         IN  /\ ocrRet' = res
             /\ opc' = IF "raised" \in DOMAIN res THEN "raised" ELSE "returned"
    /\ UNCHANGED <<engine, plpc, final_result, extractionCalls, finalWrites, mainVars, notOCR>>

\* error_message of the three early returns and of the handler.
ErrOcrFailed == "OCR shi bie shi bai"

ErrNoText == "OCR wei shi bie dao ren he wen zi"

ErrExtractionFailed == "xin xi ti qu shi bai"

ErrProcessing == "chu li guo cheng chu cuo"

\* The end of run_ocr_step and of run_extraction_step: the result when it
\* reports success, None otherwise.
SuccessOrNone(result) ==
    IF "raised" \in DOMAIN result THEN None      \* caught by except Exception
    ELSE IF "success" \in DOMAIN result /\ result.success THEN result
    ELSE None

\* run_ocr_step(self); every exception gives None.
run_ocr_step(r, world) ==
    IF world # "ok" THEN None          \* OrderOCR(), the image, the engine, the save
    ELSE SuccessOrNone(OcrResult(r))

\* The value extract_order_info returns.
ExtractOrderInfo(text, out, gen) ==
    LET Ret(direct) == IF DirectHit(direct) THEN DirectReturn(text, direct)
                       ELSE ModelPass(text, out, gen)
    IN  Ret(extract_from_ocr_text(text))

\* run_extraction_step(self, ocr_text); every exception gives None.
run_extraction_step(text, world, out, gen) ==
    IF world # "ok" THEN None          \* DeepSeekOrderExtractor(), save_result
    ELSE SuccessOrNone(ExtractOrderInfo(text, out, gen))

\* The replies of the model in a run of the pipeline.
PipelineReplies ==
    { <<"{">> \o Pair(K_company, Quoted(<<"ACME">>)) \o <<"}">>, <<>> }

\* A process_order that takes no text for blank: C18 does not hold of it.
NeverBlank(text) == FALSE

\* not ocr_text.strip()
BlankText(text) == strip(text) = <<>>

\* process_order, first step: run_ocr_step and the two tests after it.
process_order_ocr ==
    /\ plpc = "ocr"
    /\ \E world \in {"init_raises", "image_missing", "engine_raises", "save_raises", "ok"} :
         \E ocr_result \in {run_ocr_step(engine, world)} :
             IF ocr_result = None
             THEN /\ final_result' = [final_result EXCEPT !.error_message = ErrOcrFailed]
                  /\ plpc' = "returned"
             ELSE IF BlankText(ocr_result.formatted_text)
             THEN /\ final_result' = [final_result EXCEPT !.ocr_result = ocr_result,
                                                          !.error_message = ErrNoText]
                  /\ plpc' = "returned"
             ELSE /\ final_result' = [final_result EXCEPT !.ocr_result = ocr_result]
                  /\ plpc' = "extract"
    /\ UNCHANGED <<engine, opc, ocrRet, extractionCalls, finalWrites, mainVars, notOCR>>

\* process_order, second step: run_extraction_step and the test after it.
process_order_extraction ==
    /\ plpc = "extract"
    /\ extractionCalls' = extractionCalls + 1
    /\ \E world \in {"init_raises", "save_raises", "ok"},
          out \in ModelOutcomes, gen \in PipelineReplies :
         \E extraction_result \in
                 {run_extraction_step(final_result.ocr_result.formatted_text, world, out, gen)} :
             IF extraction_result = None
             THEN /\ final_result' = [final_result EXCEPT !.error_message = ErrExtractionFailed]
                  /\ plpc' = "returned"
             ELSE /\ final_result' = [final_result EXCEPT
                                          !.extraction_result = extraction_result,
                                          !.success = TRUE]
                  /\ plpc' = "write"
    /\ UNCHANGED <<engine, opc, ocrRet, finalWrites, mainVars, notOCR>>

\* process_order, last step: the final result file and its display; a
\* raise of open, of json.dump or of display_final_result goes to the
\* handler, which sets error_message and returns final_result.
process_order_save ==
    /\ plpc = "write"
    /\ plpc' = "returned"
    /\ \E out \in {"write_raises", "display_raises", "ok"} :
         /\ finalWrites' = IF out = "write_raises" THEN finalWrites ELSE finalWrites + 1
         /\ final_result' = IF out = "ok" THEN final_result
                            ELSE [final_result EXCEPT !.error_message = ErrProcessing]
    /\ UNCHANGED <<engine, opc, ocrRet, extractionCalls, mainVars, notOCR>>

\* main() up to the call of process_order: the image path is tested and the
\* pipeline constructed.  A missing image makes main return, and the
\* interpreter ends with status 0; an exception is handled by sys.exit(1).
main_start ==
    /\ mpc = "start"
    /\ \E imageExists \in BOOLEAN, constructed \in BOOLEAN :
         IF ~imageExists
         THEN /\ mpc' = "exited" /\ exitStatus' = 0
              /\ UNCHANGED plpc
         ELSE IF ~constructed
         THEN /\ mpc' = "exited" /\ exitStatus' = 1
              /\ UNCHANGED plpc
         ELSE /\ mpc' = "running" /\ plpc' = "ocr"
              /\ UNCHANGED exitStatus
    /\ UNCHANGED <<engine, opc, ocrRet, final_result, extractionCalls, finalWrites, notOCR>>

\* main() after process_order returned: sys.exit(0 if result["success"] else 1)
main_exit ==
    /\ mpc = "running" /\ plpc = "returned"
    /\ mpc' = "exited"
    /\ exitStatus' = IF final_result.success THEN 0 ELSE 1
    /\ UNCHANGED <<engine, opc, ocrRet, plpc, final_result, extractionCalls, finalWrites,
                   notOCR>>

NextOCR ==
    \/ main_start
    \/ main_exit
    \/ extract_text_from_image
    \/ process_order_ocr
    \/ process_order_extraction
    \/ process_order_save

SpecOCR == InitOCR /\ [][NextOCR]_vars

(***************************************************************************)
(* The reporters: show_batch_results and show_final_results.               *)
(***************************************************************************)
\* The value the batch reporter prints for a missing field.
NotExtracted == <<"wei", "ti", "qu">>

\* The replies whose parsed mappings the reporters read: those of the batch
\* loop, an object with all four fields, and one with a fifth member.
ReportReplies ==
    BatchReplies \cup
    { <<"{">> \o JoinWith(<<Pair(<<"company_name">>, Quoted(<<"ACME">>)),
                            Pair(<<"product_name">>, Quoted(<<"x">>)),
                            Pair(<<"product_quantity">>, Quoted(<<"5">>)),
                            Pair(<<"order_date">>, Quoted(<<"2", "0", "2", "4">>))>>,
                          <<",">>) \o <<"}">>,
      <<"{">> \o JoinWith(<<Pair(<<"company_name">>, Quoted(<<"ACME">>)),
                            Pair(<<"note">>, <<"null">>)>>, <<",">>) \o <<"}">> }

\* ai_extraction of the result files: what parse_extraction_result returned.
AiInfos == { batch_parse_extraction_result(r).info : r \in ReportReplies }

\* sum(1 for v in ai_info.values() if v and v != sentinel and v != not extracted)
BatchExtractedCount(ai_info) ==
    Cardinality({key \in DOMAIN ai_info :
                    /\ Truthy(ai_info[key])
                    /\ ai_info[key] # Str(NotFound)
                    /\ ai_info[key] # Str(NotExtracted)})

\* sum(1 for v in ai_info.values() if v != sentinel and v != '')
FinalExtractedCount(ai_info) ==
    Cardinality({key \in DOMAIN ai_info :
                    /\ ai_info[key] # Str(NotFound)
                    /\ ai_info[key] # Str(<<>>)})

\* (count / fields) * 100 under the format .1f, in tenths of a percent.
Tenths(count, fields) == (2000 * count + fields) \div (2 * fields)

RECURSIVE SumSeq(_)
SumSeq(q) == IF q = <<>> THEN 0 ELSE q[1] + SumSeq(Tail(q))

InitReport ==
    /\ rpc \in {"batch", "final"}
    /\ combined_results \in
         IF rpc = "batch" THEN SeqsUpTo(AiInfos, MaxItems) \ {<<>>}
         ELSE {<<info>> : info \in AiInfos}
    /\ order_rates = <<>> /\ overall_success_rate = NoRate
    /\ IdleBatch /\ IdleParse /\ IdleExtract /\ IdleOCR /\ IdleConda /\ IdleHeur

\* show_batch_results: the rate of every order, then the overall rate.
show_batch_results ==
    /\ rpc = "batch"
    /\ rpc' = "shown"
    /\ order_rates' =
         [i \in 1..Len(combined_results) |->
            LET extracted_count == BatchExtractedCount(combined_results[i])
            IN  IF extracted_count > 0 THEN Tenths(extracted_count, 4) ELSE 0]
    /\ LET total_fields == 4 * Len(combined_results)
           successful_fields ==
               SumSeq([i \in 1..Len(combined_results) |->
                          BatchExtractedCount(combined_results[i])])
       IN  overall_success_rate' =
               IF total_fields > 0 THEN Tenths(successful_fields, total_fields) ELSE 0
    /\ UNCHANGED <<combined_results, condaVars, heurVars, notAux>>

\* show_final_results: the rate of the one result.
show_final_results ==
    /\ rpc = "final"
    /\ rpc' = "shown"
    /\ LET ai_info == combined_results[1]
           extracted_count == FinalExtractedCount(ai_info)
           total_fields == Cardinality(DOMAIN ai_info)
       IN  order_rates' =
               << IF total_fields > 0 THEN Tenths(extracted_count, total_fields) ELSE 0 >>
    /\ UNCHANGED <<combined_results, overall_success_rate, condaVars, heurVars, notAux>>

NextReport ==
    \/ show_batch_results
    \/ show_final_results

SpecReport == InitReport /\ [][NextReport]_vars

(***************************************************************************)
(* OrderProcessingPipeline.run_in_conda_env                                *)
(***************************************************************************)
\* An argument that is not a str.
NotAStr == "<Path>"

\* env_name, script_path and *args of a call.
CondaArgs ==
    { <<env, "script.py">> \o rest :
        env \in {"ocr_env", "llm_env"},
        rest \in { <<>>, <<"img.png">>, <<"img.png", "out.json">>, <<NotAStr>> } }

\* The exceptions subprocess.run may raise besides TimeoutExpired.
ChildExceptions ==
    { [cls |-> "FileNotFoundError", errno |-> 2,
       strerror |-> "No such file or directory", filename |-> "conda"],
      [cls |-> "PermissionError", errno |-> 13,
       strerror |-> "Permission denied", filename |-> "conda"],
      [cls |-> "ValueError", errno |-> 0, strerror |-> "embedded null byte", filename |-> ""],
      [cls |-> "Exception", errno |-> 0, strerror |-> "", filename |-> ""] }

\* What subprocess.run(cmd, ..., timeout=300) does: the child completes,
\* the timeout expires, or another exception is raised.
ChildOutcomes ==
    [kind : {"completed"}, returncode : {0, 1, 2, 127, -9},
     stdout : {<<>>, <<"out">>}, stderr : {<<>>, <<"err">>, <<"timeout">>}]
    \cup {[kind |-> "timeout"]}
    \cup {[kind |-> "raised", e |-> e] : e \in ChildExceptions}

\* str(e): an OSError with an errno shows errno, strerror and the repr of
\* the file name; another exception shows its one argument, or nothing.
ExcStr(e) ==
    IF e.errno # 0
    THEN <<"[Errno ", ToString(e.errno), "] ", e.strerror, ": ", APOS, e.filename, APOS>>
    ELSE IF e.strerror # "" THEN <<e.strerror>> ELSE <<>>

\* A run_in_conda_env that reports a timeout as a failure: C16 does not
\* hold of it.
CondaReturnTimeoutFails(c) ==
    CASE c.kind = "completed" -> <<c.returncode, c.stdout, c.stderr>>
      [] c.kind = "timeout"   -> <<-1, <<>>, <<"timeout">>>>
      [] c.kind = "raised"    -> <<-1, <<>>, ExcStr(c.e)>>

\* The return statement of the try block and the two handlers.
CondaReturn(c) ==
    CASE c.kind = "completed" -> <<c.returncode, c.stdout, c.stderr>>
      [] c.kind = "timeout"   -> <<0, <<>>, <<"timeout">>>>
      [] c.kind = "raised"    -> <<-1, <<>>, ExcStr(c.e)>>

InitConda ==
    /\ conda_args \in CondaArgs
    /\ cpc = "call" /\ child = NoChild /\ cret = NoRet /\ executions = 0
    /\ IdleBatch /\ IdleParse /\ IdleExtract /\ IdleOCR /\ IdleReport /\ IdleHeur

\* run_in_conda_env(self, env_name, script_path, *args).  ' '.join(cmd)
\* stands before the try statement: with an argument that is not a str it
\* raises and the call ends without running the command.
run_in_conda_env ==
    /\ cpc = "call"
    /\ IF \E i \in 1..Len(conda_args) : conda_args[i] = NotAStr
       THEN /\ cpc' = "raised"
            /\ UNCHANGED <<child, cret, executions>>
       ELSE \E c \in ChildOutcomes :
              /\ cpc' = "returned"
              /\ child' = c
              /\ executions' = executions + 1
              /\ cret' = CondaReturn(c)
    /\ UNCHANGED <<conda_args, reportVars, heurVars, notAux>>

NextConda == run_in_conda_env

SpecConda == InitConda /\ [][NextConda]_vars

(***************************************************************************)
(* The OCR-stage heuristics: extract_basic_info and                        *)
(* OrderOCR.parse_order_info.                                              *)
(***************************************************************************)
\* The units of the quantity rule, one atom for a Chinese character.
Units ==
    { <<"jin">>, <<"gong", "jin">>, <<"dun">>, <<"sheng">>, <<"hao", "sheng">>,
      <<"li", "fang", "mi">>, <<"jian">>, <<"ge">>, <<"bao">> }

\* The keywords of the date rule.
DateKeywords == { <<"ri", "qi">>, <<"nian">>, <<"yue">>, <<"ri">> }

\* The rules of the three fields for a stripped text.
CompanyRule(text) == In(<<"gong", "si">>, text)

QuantityRule(text) == \E unit \in Units : In(unit, text)

DateRule(text) ==
    /\ \E date_keyword \in DateKeywords : In(date_keyword, text)
    /\ In(<<"2", "0", "2">>, text) \/ In(<<"2", "0", "2", "5">>, text)

\* The texts of the regions: a company, quantities, dates, a text for two
\* fields, a text for none.
RegionTexts ==
    { <<"ACME", "gong", "si">>,
      <<" ", "5", "0", "0", "jin">>,
      <<"2", "dun">>,
      <<"ri", "qi", ":", "2", "0", "2", "5", "-", "0", "1", "-", "1", "5">>,
      <<"2", "0", "2", "4", "nian", "3", "yue">>,
      <<"ACME", "gong", "si", "1", "0", "bao">>,
      <<"x">> }

\* The regions: a text and the Y coordinate of the centre of its box.
TextData ==
    SeqsUpTo([text : RegionTexts, center_y : 1..MaxRegions], MaxRegions)

\* sorted(text_data, key=lambda x: x['center'][1]): a stable sort.
SortedByY(data) ==
    LET pos(i) == Cardinality({j \in 1..Len(data) :
                      \/ data[j].center_y < data[i].center_y
                      \/ data[j].center_y = data[i].center_y /\ j <= i})
    IN  [n \in 1..Len(data) |-> data[CHOOSE i \in 1..Len(data) : pos(i) = n]]

\* extract_basic_info(texts)
extract_basic_info_of(texts) ==
    LET f[n \in 0..Len(texts)] ==
            IF n = 0
            THEN [company_name |-> NotFound, product_name |-> NotFound,
                  product_quantity |-> NotFound, order_date |-> NotFound]
            ELSE LET text == strip(texts[n])
                     r == f[n - 1]
                 IN  [company_name |->
                         IF CompanyRule(text) /\ r.company_name = NotFound
                         THEN text ELSE r.company_name,
                      product_name |-> r.product_name,
                      product_quantity |->
                         IF QuantityRule(text) /\ r.product_quantity = NotFound
                         THEN text ELSE r.product_quantity,
                      order_date |->
                         IF DateRule(text) /\ r.order_date = NotFound
                         THEN text ELSE r.order_date]
    IN  f[Len(texts)]

\* OrderOCR.parse_order_info(text_data) without confidence_avg, which the
\* loop does not read.
parse_order_info_of(data) ==
    LET sorted_texts == SortedByY(data)
        f[n \in 0..Len(sorted_texts)] ==
            IF n = 0
            THEN [company_name |-> <<>>, product_name |-> <<>>,
                  product_quantity |-> <<>>, order_date |-> <<>>,
                  raw_text |-> join([i \in 1..Len(sorted_texts) |-> sorted_texts[i].text])]
            ELSE LET text == strip(sorted_texts[n].text)
                     r == f[n - 1]
                 IN  [company_name |->
                         IF CompanyRule(text) /\ r.company_name = <<>>
                         THEN text ELSE r.company_name,
                      product_name |-> r.product_name,
                      product_quantity |->
                         IF QuantityRule(text) /\ r.product_quantity = <<>>
                         THEN text ELSE r.product_quantity,
                      order_date |-> IF DateRule(text) THEN text ELSE r.order_date,
                      raw_text |-> r.raw_text]
    IN  f[Len(sorted_texts)]

InitHeur ==
    /\ text_data \in TextData
    /\ hpc = {} /\ basic_info = NoRet /\ order_info = NoRet
    /\ IdleBatch /\ IdleParse /\ IdleExtract /\ IdleOCR /\ IdleReport /\ IdleConda

\* extract_basic_info on the texts of the regions in the order in which
\* parse_order_info reads them.
extract_basic_info ==
    /\ "basic" \notin hpc
    /\ hpc' = hpc \cup {"basic"}
    /\ \E sorted_texts \in {SortedByY(text_data)} :
         basic_info' = extract_basic_info_of([i \in 1..Len(sorted_texts) |->
                                                 sorted_texts[i].text])
    /\ UNCHANGED <<text_data, order_info, reportVars, condaVars, notAux>>

\* OrderOCR.parse_order_info(text_data)
parse_order_info ==
    /\ "order" \notin hpc
    /\ hpc' = hpc \cup {"order"}
    /\ order_info' = parse_order_info_of(text_data)
    /\ UNCHANGED <<text_data, basic_info, reportVars, condaVars, notAux>>

NextHeur ==
    \/ extract_basic_info
    \/ parse_order_info

SpecHeur == InitHeur /\ [][NextHeur]_vars

(***************************************************************************)
(* The claims.                                                             *)
(***************************************************************************)
\* C1: every summary that batch_ocr_process or batch_deepseek_process
\* writes satisfies processed + failed = total, whichever steps of the
\* iterations raised.
C1_CountsPartitionTotal ==
    bpc = "done" => summaryFile.processed + summaryFile.failed = summaryFile.total

\* The direct pass returned the sentinel for every field.
AllSentinel(direct) == \A key \in DOMAIN direct : direct[key] = Str(NotFound)

C2_After(direct) ==
    /\ (tokenizerCalls + generateCalls > 0) <=> AllSentinel(direct)
    /\ ~AllSentinel(direct) =>
         /\ eret.success
         /\ eret.extracted_info = direct
         /\ eret.raw_response = DirectTag
         /\ tokenizerCalls = 0 /\ generateCalls = 0

\* C2: extract_order_info calls the tokenizer or model.generate if and only
\* if the direct pass returned the sentinel for every field; otherwise it
\* returns success, the result of the direct pass as extracted_info and the
\* raw_response "zhi jie ti qu", with no call of the model.
C2_ModelCalledIffDirectPassEmpty ==
    epc = "returned" => C2_After(extract_from_ocr_text(ocr_text))

C2_OnlyQuantity(direct) ==
    /\ direct[K_company] = Str(NotFound)
    /\ direct[K_product] = Str(NotFound)
    /\ direct[K_quantity] # Str(NotFound)

\* The call returned by the short-circuit on a text where the direct pass
\* found the quantity and nothing else.
C2_Witness ==
    /\ epc = "returned"
    /\ eret.success /\ eret.raw_response = DirectTag
    /\ tokenizerCalls = 0 /\ generateCalls = 0
    /\ C2_OnlyQuantity(extract_from_ocr_text(ocr_text))

\* C3: extract_order_info does not raise, and every failure it returns has
\* success false, an error and an extracted_info that maps each of the four
\* field keys to the sentinel.
C3_FailureIsAllSentinel ==
    /\ epc # "raised"
    /\ (epc = "returned" /\ ~eret.success) =>
         /\ "error" \in DOMAIN eret
         /\ eret.extracted_info = [key \in ZhKeys |-> Str(NotFound)]

\* A value of a field: the sentinel, or a found string that is not empty,
\* is trimmed and is no synonym of "not found".
ValidField(v) ==
    /\ v.t = "str"
    /\ \/ v.s = NotFound
       \/ /\ v.s # <<>>
          /\ strip(v.s) = v.s
          /\ lower(v.s) \notin {NotFound, <<"null">>, <<"none">>}

\* C4: every extracted_info that extract_order_info returns with success
\* has exactly the four field keys, each mapped to a valid field value.
C4_SuccessIsValidExtractedFields ==
    (epc = "returned" /\ eret.success) =>
        /\ DOMAIN eret.extracted_info = ZhKeys
        /\ \A key \in DOMAIN eret.extracted_info : ValidField(eret.extracted_info[key])

\* The spans of s that are a well-formed flat JSON object.
ObjectSpans(s) ==
    { span \in (1..Len(s)) \X (1..Len(s)) :
        /\ span[1] < span[2]
        /\ s[span[1]] = "{" /\ s[span[2]] = "}"
        /\ json_loads(Slice(s, span[1], span[2])).ok }

\* What C5 expects of a key: the trimmed value when it is present, not empty
\* and no synonym of "not found"; the sentinel otherwise.
ExpectedField(obj, key) ==
    IF key \in DOMAIN obj /\ obj[key].t # "null"
       /\ strip(obj[key].s) # <<>>
       /\ lower(strip(obj[key].s)) \notin {NotFound, <<"null">>, <<"none">>}
    THEN Str(strip(obj[key].s))
    ELSE Str(NotFound)

C5_Agrees(obj) == \A key \in EnKeys : batchRes.info[key] = ExpectedField(obj, key)

\* C5: on a reply that holds a well-formed flat JSON object, the parser of
\* batch_deepseek_compatible returns, for each of the four English keys,
\* the trimmed value of the object, or the sentinel when the key is absent,
\* empty or a synonym of "not found".
C5_BatchParserReadsWellFormedObject ==
    batchRes # NoRes =>
        \A span \in ObjectSpans(reply) :
            C5_Agrees(json_loads(Slice(reply, span[1], span[2])).obj)

\* A {...} candidate is found in s and json.loads rejects it: for the class
\* parser after its clean-up, for the batch parser as it stands.
ClassCandidateFails(s) ==
    /\ BraceSearch(s)[1] # 0
    /\ ~json_loads(CleanJson(Slice(s, BraceSearch(s)[1], BraceSearch(s)[2]))).ok

BatchCandidateFails(s) ==
    /\ BraceSearch(s)[1] # 0
    /\ ~json_loads(Slice(s, BraceSearch(s)[1], BraceSearch(s)[2])).ok

\* C6: in both parsers, when a candidate is found and its JSON parse fails,
\* the result is that of the label fallback over the whole reply.
C6_MalformedJsonFallsBack ==
    /\ (classRes # NoRes /\ ClassCandidateFails(reply)) =>
           classRes.info = RegexFallback(reply)
    /\ (batchRes # NoRes /\ BatchCandidateFails(reply)) =>
           batchRes.info = TextParse(reply)

\* s is one line "shu liang", a colon (ASCII or full width) and a value
\* that is not blank, and holds no brace.
IsQuantityLine(s) ==
    /\ Len(s) > 3
    /\ SubSeq(s, 1, 2) = <<"shu", "liang">>
    /\ s[3] \in {":", "colon_fw"}
    /\ \A i \in 1..Len(s) : s[i] \notin {NL, "{", "}"}
    /\ strip(SubSeq(s, 4, Len(s))) # <<>>

\* C7: on a reply that is a quantity label line "shu liang: V" and holds no
\* JSON object, both parsers give V trimmed as the quantity.
C7_QuantityLabelLine ==
    IsQuantityLine(reply) =>
        /\ classRes # NoRes =>
             classRes.info[K_quantity] = Str(strip(SubSeq(reply, 4, Len(reply))))
        /\ batchRes # NoRes =>
             batchRes.info[<<"product_quantity">>] = Str(strip(SubSeq(reply, 4, Len(reply))))

\* C8: when the first {...} of a reply is a well-formed flat JSON object,
\* the reply with a trailing comma (and white space) put before the closing
\* brace is parsed by the class parser to the same mapping, by the JSON
\* path and not by the regex fallback.
C8_TrailingCommaRepaired ==
    (orig.edited /\ classRes # NoRes /\ orig.res.path = "json"
       /\ ~BatchCandidateFails(orig.reply)) =>
        /\ classRes.path = "json"
        /\ classRes.info = orig.res.info

\* The engine answered the call: the image exists and ocr.ocr returned.
EngineAnswered ==
    /\ opc \in {"returned", "raised"}
    /\ ~("raised" \in DOMAIN ocrRet /\ ocrRet.raised \in {"image_missing", "engine_raises"})

\* C9: for every response of the engine, extract_text_from_image returns and
\* does not raise; when it reports total_lines, raw_result has that many
\* regions and formatted_text is their texts joined line by line.
C9_NormalizerTotalAndConsistent ==
    EngineAnswered =>
        /\ opc = "returned"
        /\ "total_lines" \in DOMAIN ocrRet =>
             /\ Len(ocrRet.raw_result) = ocrRet.total_lines
             /\ ocrRet.formatted_text =
                    join([i \in 1..Len(ocrRet.raw_result) |-> ocrRet.raw_result[i].text.s])

\* The response holds no recognized text: None, [], [None], [[]], or a dict
\* whose rec_texts is empty or holds blank strings only.
NoTextResponse(r) ==
    \/ r.top \in {"None", "empty_list"}
    \/ /\ r.top = "list"
       /\ \/ r.first = "None"
          \/ r.first = "lines" /\ r.items = <<>>
          \/ /\ r.first = "dict_rec"
             /\ \A i \in 1..Len(r.texts) : r.texts[i].str /\ strip(r.texts[i].s) = <<>>

\* C10: on a response that holds no recognized text, extract_text_from_image
\* returns no region, an empty text and an error string, without a success
\* flag; process_order then records "OCR shi bie shi bai" and does not run
\* the extraction.
C10_NoTextIsReportedAsError ==
    NoTextResponse(engine) =>
        /\ EngineAnswered =>
             /\ opc = "returned"
             /\ ocrRet.raw_result = <<>>
             /\ ocrRet.formatted_text = <<>>
             /\ "error" \in DOMAIN ocrRet
             /\ "success" \notin DOMAIN ocrRet
        /\ plpc = "returned" =>
             /\ final_result.error_message = ErrOcrFailed
             /\ extractionCalls = 0

\* C11: main() ends the process with status 0 exactly when process_order
\* returned success, and with status 1 for every failure: a missing image,
\* an OCR failure, a blank text, an extraction failure, an exception.
C11_ExitStatusReflectsSuccess ==
    mpc = "exited" =>
        /\ exitStatus \in {0, 1}
        /\ exitStatus = 0 <=> (plpc = "returned" /\ final_result.success)

\* The step is an iteration in which the call of the engine raised: ocr.ocr
\* in batch_ocr_process, model.generate in batch_deepseek_process.
EngineRaisedStep ==
    /\ Len(outcomes') = Len(outcomes) + 1
    /\ outcomes'[Len(outcomes')] \in {"engine_raises", "generate_raises"}

\* C12: an iteration in which the call of the engine raises counts its item
\* as failed and not as processed, records no success for it, and leaves
\* the loop running.
C12_EngineRaiseIsItemFailure ==
    [][EngineRaisedStep =>
          /\ batch'.failed = batch.failed + 1
          /\ batch'.processed = batch.processed
          /\ batch'.results = batch.results
          /\ bpc' = "loop"]_vars

\* The iterations of batch_deepseek_process so far in which a statement
\* raised or the OCR text was empty.
AiFailures ==
    {i \in 1..Len(outcomes) : outcomes[i] \notin {"ok", "generate_raises"}}

\* C13: a field that is not found is no failure.  extract_order_info
\* returns success whenever the model call and the parsing completed, and
\* fails only when a statement raised; batch_deepseek_process records every
\* item it extracted with success, and failed_files counts only the items
\* where a statement raised or the text was empty, whatever the fields are.
C13_SentinelIsNotFailure ==
    /\ (epc = "returned" /\ mock.out = "ok") => eret.success
    /\ (epc = "returned" /\ ~eret.success) =>
           mock.out \in {"tokenizer_raises", "generate_raises", "decode_raises"}
    /\ bprog = "ai" =>
           /\ \A n \in 1..Len(batch.results) : batch.results[n].success
           /\ batch.failed = Cardinality(AiFailures)

\* extract_order_info returned success with the sentinel in all four fields
\* after the model answered.
C13_Witness ==
    /\ epc = "returned" /\ mock.out = "ok"
    /\ eret.success
    /\ eret.extracted_info = [key \in ZhKeys |-> Str(NotFound)]

FourFieldRate(ai_info) ==
    250 * Cardinality({key \in EnKeys :
                          key \in DOMAIN ai_info /\ ai_info[key] # Str(NotFound)})

\* C15: the success rate a reporter prints for an order is the number of the
\* four fields that are not the sentinel, over four, times 100, and the
\* overall rate of show_batch_results is one of 0, 25, 50, 75, 100 too.
C15_RateIsFourFieldFraction ==
    rpc = "shown" =>
        /\ \A i \in 1..Len(order_rates) :
              order_rates[i] = FourFieldRate(combined_results[i])
        /\ overall_success_rate \in {NoRate, 0, 250, 500, 750, 1000}

\* C16: run_in_conda_env returns the child's return code, stdout and stderr
\* when the child completed, (0, "", "timeout") when the timeout expired and
\* (-1, "", str(e)) when subprocess.run raised another exception; the
\* command is executed at most once in a call, and once when the call returns.
C16_CondaOutcomeMapping ==
    /\ executions <= 1
    /\ cpc = "returned" =>
         /\ executions = 1
         /\ child.kind = "completed" =>
                cret = <<child.returncode, child.stdout, child.stderr>>
         /\ child.kind = "timeout" => cret = <<0, <<>>, <<"timeout">>>>
         /\ child.kind = "raised" =>
                /\ cret[1] = -1 /\ cret[2] = <<>>
                /\ cret[3] = ExcStr(child.e)

\* The call returned after the timeout expired.
C16_Witness ==
    cpc = "returned" /\ child.kind = "timeout" /\ cret[1] = 0 /\ executions = 1

\* C17: a run of process_order that has returned has written the final
\* result file exactly once.
C17_FinalResultWrittenOnce ==
    plpc = "returned" => finalWrites = 1

\* The OCR step of the run gave a result with success and a text that is
\* not blank.
OcrStepPassed ==
    /\ final_result.ocr_result # None
    /\ final_result.ocr_result.success
    /\ strip(final_result.ocr_result.formatted_text) # <<>>

\* C18: run_extraction_step is called at most once in a run, and only after
\* run_ocr_step returned success with a text that is not blank; a run that
\* returns without that has not called it, and its result has success
\* false, no extraction_result and an error message.
C18_ExtractionOnlyAfterOcr ==
    /\ extractionCalls <= 1
    /\ plpc = "ocr" => extractionCalls = 0
    /\ extractionCalls = 1 => OcrStepPassed
    /\ (plpc = "returned" /\ ~OcrStepPassed) =>
           /\ extractionCalls = 0
           /\ ~final_result.success
           /\ final_result.extraction_result = None
           /\ final_result.error_message # ""

\* A run returned because the OCR text was blank, without calling
\* run_extraction_step.
C18_Witness ==
    /\ plpc = "returned" /\ extractionCalls = 0
    /\ final_result.ocr_result # None
    /\ final_result.error_message = ErrNoText

\* A run called run_extraction_step after run_ocr_step succeeded.
C18_WitnessExtraction ==
    plpc = "returned" /\ extractionCalls = 1 /\ final_result.success

\* The value of the first line of the reply that the text parse reads for
\* the field, or the sentinel when no line is read for it.
FirstLineValue(response, key) ==
    LET lines == split(response)
        hits == {n \in 1..Len(lines) :
                    /\ LineField(strip(lines[n])) = key
                    /\ ColonSearch(strip(lines[n])).found}
    IN  IF hits = {} THEN Str(NotFound)
        ELSE Str(strip(ColonSearch(strip(lines[Min(hits)])).group))

\* C19: in the fallback of both parsers a field takes its first match and a
\* later match does not change it.  In the class parser the value is the
\* group of the first pattern of the field's list that matches; in the batch
\* parser it is the value of the first line read for the field; a field
\* without a match is the sentinel.
C19_FirstMatchWins ==
    /\ (classRes # NoRes /\ classRes.path = "regex") =>
           \A key \in ZhKeys :
               classRes.info[key] = Str(FirstPattern(reply, Patterns(key)))
    /\ (batchRes # NoRes /\ batchRes.path = "text") =>
           \A key \in EnKeys : batchRes.info[key] = FirstLineValue(reply, key)

\* The stripped texts of the regions in processing order.
ProcessedTexts ==
    LET sorted_texts == SortedByY(text_data)
    IN  [i \in 1..Len(sorted_texts) |-> strip(sorted_texts[i].text)]

\* The text of the first region that satisfies the rule of the field, or
\* none when no region does.
FirstRegionText(field, none) ==
    LET texts == ProcessedTexts
        hits == {i \in 1..Len(texts) :
                    CASE field = "company_name"     -> CompanyRule(texts[i])
                      [] field = "product_quantity" -> QuantityRule(texts[i])
                      [] field = "order_date"       -> DateRule(texts[i])}
    IN  IF hits = {} THEN none ELSE texts[Min(hits)]

\* C20: both heuristics give company name, quantity and order date the text
\* of the first region, in processing order, that satisfies the rule of the
\* field, so that a later region never overwrites a field and the two
\* functions read every field from the same region.
C20_HeuristicsFirstMatchWins ==
    \A field \in {"company_name", "product_quantity", "order_date"} :
        /\ "basic" \in hpc => basic_info[field] = FirstRegionText(field, NotFound)
        /\ "order" \in hpc => order_info[field] = FirstRegionText(field, <<>>)

\* What C21 says of the result direct of the direct pass on these lines.
DirectPassAsStated(lines, direct) ==
    LET ProductLines == {i \in 1..Len(lines) : In(SodiumCarbonate, lines[i])}
        KgLines == {i \in 1..Len(lines) : HasKg(lines[i])}
        \* the buyer lines followed by a line neither empty nor the marker
        BuyerLines == {i \in 1..(Len(lines) - 1) :
                          /\ In(Buyer, lines[i])
                          /\ strip(lines[i + 1]) \notin {<<>>, Buyer}}
    IN  /\ direct[K_company] =
               IF BuyerLines = {} THEN Str(NotFound)
               ELSE Str(strip(lines[Min(BuyerLines) + 1]))
        /\ direct[K_product] =
               IF ProductLines = {} THEN Str(NotFound) ELSE Str(SodiumCarbonate)
        /\ ProductLines # {} =>
               direct[K_quantity] =
                   IF Min(ProductLines) + 1 \in KgLines
                   THEN Str(strip(lines[Min(ProductLines) + 1]))
                   ELSE Str(NotFound)
        /\ (ProductLines = {} /\ direct[K_quantity] # Str(NotFound)) =>
               /\ \E i \in 1..Len(lines) : In(<<"wu", "pin">>, lines[i])
               /\ direct[K_quantity] = Str(strip(lines[Min(KgLines)]))

\* C21: the direct pass.  The company is the stripped line after the first
\* buyer line whose next line is neither empty nor the marker, else the
\* sentinel.  The product is named iff a line holds it; the quantity is then
\* the stripped line after the first such line iff that line holds KG or kg.
\* Without a product line, a quantity is read only when a line holds the
\* item word, and then from the first line with KG or kg.
C21_DirectPass ==
    epc = "direct" =>
        DirectPassAsStated(split(strip(ocr_text)), eret.extracted_info)

\* The direct pass returned the company read after the second of two buyer
\* lines.
C21_Witness ==
    /\ epc = "direct"
    /\ Len(split(strip(ocr_text))) = 3
    /\ In(Buyer, split(strip(ocr_text))[1]) /\ In(Buyer, split(strip(ocr_text))[2])
    /\ eret.extracted_info[K_company] = Str(strip(split(strip(ocr_text))[3]))
    /\ eret.extracted_info[K_company] # Str(NotFound)

\* The direct pass read the quantity from the first line with KG: no line
\* holds the product and a line holds the item word.
C21_WitnessItem ==
    /\ epc = "direct"
    /\ ~In(SodiumCarbonate, ocr_text) /\ In(<<"wu", "pin">>, ocr_text)
    /\ eret.extracted_info[K_quantity] # Str(NotFound)

\* The response has a shape the normalizer does not recognize: it is not a
\* list; its first element is neither a dict with rec_texts nor a list; the
\* list of lines holds no line that can be read; or reading it raises (a
\* text that is not a str, a line whose second element does not unpack).
UnrecognizedShape(r) ==
    \/ r.top = "other"
    \/ /\ r.top = "list"
       /\ \/ r.first \in {"None", "dict_other", "object"}
          \/ /\ r.first = "dict_rec"
             /\ \E i \in 1..Len(r.texts) : ~r.texts[i].str
          \/ /\ r.first = "lines"
             /\ \/ \A i \in 1..Len(r.items) : r.items[i].kind \in {"tuple", "short"}
                \/ \E i \in 1..Len(r.items) :
                      r.items[i].kind = "badpair" \/ ~r.items[i].text.str

\* C22: on a response of unrecognized shape extract_text_from_image returns
\* exactly one region, whose text is str(result), with confidence 0.9 and an
\* empty bbox, total_lines 1 and success, and none of the regions collected
\* before the failure.
C22_UnrecognizedShapeDegrades ==
    (UnrecognizedShape(engine) /\ EngineAnswered) =>
        /\ opc = "returned"
        /\ ocrRet.raw_result = Fallback
        /\ ocrRet.formatted_text = Repr.s
        /\ ocrRet.total_lines = 1
        /\ ocrRet.success

\* The outcomes after which an iteration counts the item as failed.
FailedOutcomes ==
    {"engine_raises", "no_text", "handling_raises", "mkdir_raises",
     "json_open_raises", "json_dump_raises", "text_write_raises",
     "read_raises", "empty_text", "format_raises", "open_raises", "dump_raises"}

\* C23: in a batch run the engine is loaded exactly once, before the first
\* item, and never again: once the loop is entered, and whenever the engine
\* has been called or an item has been handled, the number of loads is 1,
\* also after items that failed.
C23_EngineLoadedOnce ==
    (bsetup = "ok" \/ engineCalls # <<>> \/ outcomes # <<>>) => engineLoads = 1

C23_Witness ==
    /\ Len(outcomes) >= 2
    /\ outcomes[1] \in FailedOutcomes
    /\ Len(engineCalls) >= 2
    /\ engineLoads = 1

\* The engine was called for at most one item at each position, in list
\* order: the items called for grow strictly and were all visited.
CalledInOrder ==
    /\ \A i \in 1..Len(engineCalls) : engineCalls[i] \in 1..Len(outcomes)
    /\ \A i, j \in 1..Len(engineCalls) : i < j => engineCalls[i] < engineCalls[j]

\* The loop has visited the items 1..bidx-1 once each, whatever they did.
VisitedOncePerItem == bsetup = "ok" => Len(outcomes) = bidx - 1

\* C24: each batch loop visits every item exactly once, in list order, with
\* at most one engine call per item and no second attempt; a failed item
\* does not stop the items after it, so that once the loop was entered the
\* run ends with every item visited and the summary written.
C24_LoopEndsWithSummary ==
    /\ CalledInOrder
    /\ VisitedOncePerItem
    /\ (bsetup = "ok" /\ bpc # "loop") =>
           /\ Len(outcomes) = batch.total
           /\ summaryFile.written

\* C25: in every result process_order returns, success is true only if
\* error_message is empty and ocr_result and extraction_result are both
\* set; a result with an error_message, the one of the catch-all handler
\* included, has success false.
C25_SuccessHasNoError ==
    (plpc = "returned" /\ final_result.success) =>
        /\ final_result.error_message = ""
        /\ final_result.ocr_result # None
        /\ final_result.extraction_result # None

\* An iteration that counted its item as failed.
FailedItemStep ==
    /\ Len(outcomes') = Len(outcomes) + 1
    /\ batch'.failed = batch.failed + 1

\* Between iterations the results are as many as the processed counter says
\* and each of them records success.
ResultsMatchProcessed ==
    /\ Len(batch.results) = batch.processed
    /\ \A i \in 1..Len(batch.results) : batch.results[i].success

\* C26: in both batch loops, between iterations, len(results) equals the
\* processed counter and every entry of results has success true; an
\* iteration that counts its item as failed leaves the results and the
\* processed counter unchanged.
C26_FailedItemLeavesResults ==
    /\ []ResultsMatchProcessed
    /\ [][FailedItemStep =>
             /\ batch'.results = batch.results
             /\ batch'.processed = batch.processed]_vars

\* The per-item result file of the program that runs.
ItemFile == IF bprog = "ocr" THEN "ocr_result.json" ELSE "ai_result.json"

\* C27: every entry of the results of a written summary has its per-item
\* file on disk (ocr_result.json in batch_ocr_process, ai_result.json in
\* batch_deepseek_process), and no such file exists for an item that was
\* counted as failed.
C27_ResultsHaveArtifacts ==
    bpc = "done" =>
        /\ \A i \in 1..Len(summaryFile.results) :
               <<summaryFile.results[i].item, ItemFile>> \in disk
        /\ \A i \in 1..Len(outcomes) :
               outcomes[i] \in FailedOutcomes => <<i, ItemFile>> \notin disk

\* extract_order_info returned without calling the tokenizer: it took the
\* short-circuit after the direct pass.
ShortCircuitTaken == epc = "returned" /\ tokenizerCalls = 0

\* C28: the direct pass never assigns the order date: extract_from_ocr_text
\* returns the sentinel for it on every text, so the dict of the
\* short-circuit of extract_order_info has the sentinel date even when the
\* text holds a date, and the condition of the short-circuit (company,
\* product or quantity found) holds exactly when any field was found.
C28_DirectPassNeverDates ==
    /\ epc = "direct" =>
           /\ eret.extracted_info[K_date] = Str(NotFound)
           /\ DirectHit(eret.extracted_info) <=> ~AllSentinel(eret.extracted_info)
    /\ ShortCircuitTaken =>
           /\ eret.success
           /\ eret.raw_response = DirectTag
           /\ eret.extracted_info[K_date] = Str(NotFound)
           /\ ~AllSentinel(eret.extracted_info)
    /\ (epc = "returned" /\ ~ShortCircuitTaken) =>
           AllSentinel(extract_from_ocr_text(ocr_text))

C28_Witness ==
    /\ ShortCircuitTaken
    /\ In(<<"2", "0", "2", "5", "-", "0", "1", "-", "1", "5">>, ocr_text)
    /\ eret.extracted_info[K_company] = Str(<<"ACME", "gong", "si">>)
    /\ eret.extracted_info[K_date] = Str(NotFound)

\* An iteration of batch_deepseek_process that handled an item with the
\* given outcome.
AiItemStep(out) ==
    /\ bprog = "ai"
    /\ Len(outcomes') = Len(outcomes) + 1
    /\ outcomes'[Len(outcomes')] = out

\* C29: batch_deepseek_process never invokes the model for an OCR result
\* whose raw_text is missing or empty: the item is counted as failed, not
\* appended to results and gets no ai_result.json; and for every item with
\* a readable OCR file and a non-empty raw_text generate_response is invoked
\* exactly once.
C29_ModelCalledIffText ==
    [][/\ AiItemStep("empty_text") =>
            /\ engineCalls' = engineCalls
            /\ batch'.failed = batch.failed + 1
            /\ batch'.results = batch.results
            /\ disk' = disk
       /\ \A out \in AiOutcomes \ {"empty_text", "read_raises"} :
            AiItemStep(out) => engineCalls' = Append(engineCalls, bidx)]_vars

\* The set-up ended at one of its tests of the input.
SetupFailed == bsetup \in {"no_dir", "no_files", "no_model"}

\* C30: when the set-up of a batch run fails (the directory is missing, no
\* input file is found, or the model path is missing) the function returns
\* None with no engine or model loaded, no item handled, no engine call, no
\* file and no summary written; hence a run that reaches the success-rate
\* division has a total of at least 1.
C30_FailedSetupDoesNothing ==
    /\ SetupFailed =>
           /\ bpc = "none"
           /\ engineLoads = 0
           /\ engineCalls = <<>>
           /\ outcomes = <<>>
           /\ disk = {}
           /\ ~summaryFile.written
    /\ bpc = "done" => (summaryFile.written /\ summaryFile.total >= 1)

C30_Witness == bsetup = "no_files" /\ bpc = "none" /\ engineLoads = 0

C30_WitnessNoModel == bsetup = "no_model" /\ bpc = "none" /\ engineLoads = 0

C30_WitnessDivision == bpc = "done" /\ summaryFile.total = 1

====
